---- MODULE Spec2Model ----
EXTENDS Integers, Sequences, FiniteSets, Bags, TLC

(***************************************************************************)
(* A model of the desktop overlay (src/overlay.py, class OverlayApp).      *)
(*                                                                         *)
(* Nine specifications share the module:                                   *)
(*   Spec        the UI thread on a fixed display: the window mode, the    *)
(*               peek state machine, the after() timer queue, drag, the    *)
(*               menu toggles and quit.  Every handler of the Tk event     *)
(*               loop is one atomic action; pending after() callbacks are  *)
(*               a bag and fire in any order relative to user events.      *)
(*   SpecGeom    the screen-geometry poll, the toggles, drag and quit      *)
(*               while the display configuration changes under them.       *)
(*   SpecPoller  the sensor thread against quit() and update_ui() on the   *)
(*               UI thread, at the granularity of lock acquire/release.    *)
(*   SpecStore   self.sensor_data as a reference into a heap of Python     *)
(*               objects: what copy.deepcopy shares with the stored value. *)
(*   SpecRefresh the ticks of update_ui (labels, disk rows, fan ceilings,  *)
(*               alerts) beside the sensor thread that publishes to them.  *)
(*   SpecConfig  load_config and save_config on the files they can meet.   *)
(*   SpecLive    the peek cycle under fair timer callbacks, with a pointer *)
(*               that comes to rest away from the widget and the strip.    *)
(*   SpecStartup the overlay after __init__ on the displays and saved      *)
(*               positions it can start with.                              *)
(*   SpecInstaller  setup.py: download_and_extract, one package per step,  *)
(*               over the downloads and archives it can receive.           *)
(*                                                                         *)
(* Handlers are written as functions from a record of the UI state to the  *)
(* record after the call, so that a handler that calls another handler     *)
(* synchronously (_animate_slide -> _peek_shown -> _peek_check_mouse ->    *)
(* _peek_hide -> _animate_slide -> _peek_hidden) is one action.            *)
(***************************************************************************)

VARIABLES
    \* ---- UI thread: OverlayApp fields
    running,          \* self.running
    topmost,          \* self.topmost
    peek_enabled,     \* self.peek_enabled
    peek_visible,     \* self.peek_visible
    peek_animating,   \* self._peek_animating
    saved_pos,        \* self._saved_pos: NoPos (None) or <<x, y>>
    config,           \* self.config: [x, y]
    embedded,         \* self.embedded
    win,              \* the root window: [x, y, shown, top, bottom]
    trig,             \* the trigger strip: [shown, w, h, x, y]
    last_screen,      \* self._last_screen_x/_y/_w/_h
    timers,           \* bag of pending root.after() callbacks
    ticks,            \* history: the _animate_slide calls of the latest handler
    hits,             \* history: the hit tests of the latest handler
    rows,             \* self.rows: the text of every value label, disk rows last
    last_disk_names,  \* self._last_disk_names
    GPU_FAN_MAX_RPM,  \* self._GPU_FAN_MAX_RPM
    CPU_FAN_MAX_RPM,  \* self._CPU_FAN_MAX_RPM
    last_alert_time,  \* self._last_alert_time
    alerts_enabled,   \* self.alerts_enabled
    \* ---- environment of the UI thread
    screen,           \* GetSystemMetrics: the virtual screen [x, y, w, h]
    config_file,      \* the file at CONFIG_PATH: [kind, doc]
    saved_cfg,        \* history: the dict of the save_config call that wrote it
    loaded_cfg,       \* the dict the latest load_config call returned
    pointer,          \* GetCursorPos: where the pointer rests (NoMouse: it moves)
    \* ---- setup.py: download_and_extract
    lib_dir,          \* LIB_DIR: file name -> content written (NoData: no file)
    setup_pc,         \* index into PACKAGES of the next loop iteration
    exit_code,        \* Running, or the status the process ended with
    verified,         \* history: the _verify_hash calls of the latest iteration
    package,          \* history: what the latest iteration downloaded
    \* ---- sensor thread and the state it shares with the UI thread
    lock,             \* self.lock: "free", "poller" or "ui"
    computer,         \* self.computer: 0 (None) or a handle id
    stop_event,       \* self._stop_event
    sensor_data,      \* self.sensor_data, by value
    p_pc,             \* sensor_loop: position
    p_computer,       \* sensor_loop: local `computer`
    p_data,           \* sensor_loop: local `data`, by value
    consecutive_errors, \* sensor_loop: local counter
    q_pc,             \* quit(): position on the UI thread
    u_pc,             \* update_ui(): position on the UI thread
    u_data,           \* update_ui(): local `data`, by value
    closes,           \* history: handle -> Close() calls that reached it
    n_handles,        \* history: handles init_hardware_monitor has opened
    n_close,          \* history: Close() calls sensor_loop has made
    n_init,           \* history: init_hardware_monitor() calls of sensor_loop
    \* ---- the same store with object identity (SpecStore)
    heap,             \* Python objects: address -> object
    slot,             \* the object self.sensor_data refers to
    p_ref,            \* the object sensor_loop's `data` refers to (0: none)
    u_ref             \* the object update_ui's `data` refers to (0: none)

uivars == <<running, topmost, peek_enabled, peek_visible, peek_animating,
            saved_pos, config, embedded, win, trig, last_screen, timers,
            ticks, hits, rows, last_disk_names, GPU_FAN_MAX_RPM,
            CPU_FAN_MAX_RPM, last_alert_time, alerts_enabled>>
instvars == <<lib_dir, setup_pc, exit_code, verified, package>>
envvars == <<screen, config_file, saved_cfg, loaded_cfg, pointer, instvars>>
pvars == <<lock, computer, stop_event, sensor_data, p_pc, p_computer, p_data,
           consecutive_errors, q_pc, u_pc, u_data, closes, n_handles, n_close,
           n_init>>
svars == <<heap, slot, p_ref, u_ref>>
vars == <<uivars, envvars, pvars, svars>>

\* ------------------------------------------------------------------ bounds
\* winfo_width() / winfo_height() of the widget
OverlayW == 50
OverlayH == 20
\* pending after() callbacks the model keeps at once
MaxTimers == 4

\* handles init_hardware_monitor can open in one run
MaxHandles == 2
\* consecutive failures the model follows
MaxErrors == 4
\* Objects the heap of SpecStore holds.
MaxAddr == 10

\* ------------------------------------------------------- program constants
ReinitAfter == 3
SlideStep == 20
TriggerW == 6
TriggerSlack == 10
DefaultX == 50
DefaultY == 50
DefaultGpuFanMax == 2200
DefaultCpuFanMax == 1800
AlertCooldown == 60

\* Virtual screens the environment switches between (origin and size).
WideScreen == [x |-> 0, y |-> 0, w |-> 100, h |-> 60]
Screens == { WideScreen, [x |-> 0, y |-> 0, w |-> 60, h |-> 60] }

\* Positions a config file can hold at startup, and positions a drag ends at.
StartPos == <<70, 20>>
InitPositions == { <<50, 50>>, StartPos }
DragPositions == { <<30, 30>> }
\* Virtual screens and config positions OverlayApp can be constructed with:
\* origins at 0, negative and beyond 50, positions inside and outside them.
StartScreens ==
    { WideScreen, [x |-> 60, y |-> 0, w |-> 100, h |-> 60],
      [x |-> -100, y |-> -40, w |-> 100, h |-> 40],
      [x |-> -20, y |-> -20, w |-> 120, h |-> 80] }
StartPositions == { <<50, 50>>, StartPos, <<-10, -10>>, <<200, 10>>, <<70, 70>> }
\* Cursor positions GetCursorPos can report.
MousePoints == { <<95, 30>>, <<92, 55>>, <<60, 30>>, <<10, 10>> }
\* Window classes the hit test can find ("NULL": WindowFromPoint found none).
HitClasses == { "NULL", "WorkerW", "Chrome_WidgetWin_1" }

NoPos == <<>>
NoMouse == <<0, 0>>

\* ------------------------------------------------------------ after() queue
\* A pending callback.  n, start and stale are history: the calls its slide has
\* made, where the slide began, and whether it belongs to a peek cycle that
\* toggle_topmost has cancelled.
Cb(kind) ==
    [kind |-> kind, cur |-> 0, target |-> 0, y |-> 0, step |-> 0,
     cb |-> "", n |-> 0, start |-> 0, stale |-> FALSE]

AnimCb(cur, target, y, step, cb, n, start) ==
    [kind |-> "anim", cur |-> cur, target |-> target, y |-> y, step |-> step,
     cb |-> cb, n |-> n, start |-> start, stale |-> FALSE]

\* root.after(ms, cb).  What a callback of a cancelled cycle schedules belongs
\* to that cycle too.
after(st, cb) ==
    LET c == IF cb.kind \in {"anim", "mouse"}
             THEN [cb EXCEPT !.stale = st.from_stale] ELSE cb
    IN  [st EXCEPT !.timers = @ (+) SetToBag({c})]

MarkStale(cb) ==
    IF cb.kind \in {"anim", "mouse"} THEN [cb EXCEPT !.stale = TRUE] ELSE cb

geometry(st, x, y) == [st EXCEPT !.win.x = x, !.win.y = y]

\* The UI state as one record, and its assignment to the variables.
St ==
    [running |-> running, topmost |-> topmost, peek_enabled |-> peek_enabled,
     peek_visible |-> peek_visible, peek_animating |-> peek_animating,
     saved_pos |-> saved_pos, config |-> config, embedded |-> embedded,
     win |-> win, trig |-> trig, last_screen |-> last_screen,
     timers |-> timers, ticks |-> <<>>, hits |-> <<>>, from_stale |-> FALSE,
     rows |-> rows, last_disk_names |-> last_disk_names,
     GPU_FAN_MAX_RPM |-> GPU_FAN_MAX_RPM, CPU_FAN_MAX_RPM |-> CPU_FAN_MAX_RPM,
     last_alert_time |-> last_alert_time, alerts_enabled |-> alerts_enabled]

\* The state a pending callback t is invoked in.
Fired(t) == [St EXCEPT !.timers = @ (-) SetToBag({t}), !.from_stale = t.stale]

Becomes(r) ==
    /\ BagCardinality(r.timers) <= MaxTimers
    /\ running' = r.running
    /\ topmost' = r.topmost
    /\ peek_enabled' = r.peek_enabled
    /\ peek_visible' = r.peek_visible
    /\ peek_animating' = r.peek_animating
    /\ saved_pos' = r.saved_pos
    /\ config' = r.config
    /\ embedded' = r.embedded
    /\ win' = r.win
    /\ trig' = r.trig
    /\ last_screen' = r.last_screen
    /\ timers' = r.timers
    /\ ticks' = r.ticks
    /\ hits' = r.hits
    /\ rows' = r.rows
    /\ last_disk_names' = r.last_disk_names
    /\ GPU_FAN_MAX_RPM' = r.GPU_FAN_MAX_RPM
    /\ CPU_FAN_MAX_RPM' = r.CPU_FAN_MAX_RPM
    /\ last_alert_time' = r.last_alert_time
    /\ alerts_enabled' = r.alerts_enabled

\* ------------------------------------------------------------- WindowEmbedder
\* _embed_into_desktop that tries again when no desktop surface was found.
embed_into_desktop_retry(st, found) ==
    LET s1 == IF found THEN [st EXCEPT !.embedded = TRUE]
              ELSE after([st EXCEPT !.win.bottom = TRUE], Cb("embed"))
    IN  [s1 EXCEPT !.win.shown = TRUE]

\* _embed_into_desktop; `found` is whether find_desktop_worker_w found WorkerW.
embed_into_desktop(st, found) ==
    LET s1 == IF found THEN [st EXCEPT !.embedded = TRUE]
              ELSE [st EXCEPT !.win.bottom = TRUE]
    IN  [s1 EXCEPT !.win.shown = TRUE]

\* ------------------------------------------------------- ScreenGeometryWatcher
\* The strip anchored by its slack instead of its width.
update_trigger_geometry_slack(st) ==
    [st EXCEPT !.trig.w = TriggerW, !.trig.h = screen.h,
               !.trig.x = screen.x + screen.w - TriggerSlack,
               !.trig.y = screen.y]

update_trigger_geometry(st) ==
    [st EXCEPT !.trig.w = TriggerW, !.trig.h = screen.h,
               !.trig.x = screen.x + screen.w - TriggerW,
               !.trig.y = screen.y]

poll_screen_change(st) ==
    LET s1 == IF screen # st.last_screen
              THEN update_trigger_geometry([st EXCEPT !.last_screen = screen])
              ELSE st
    IN  after(s1, Cb("poll"))

\* --------------------------------------------------------------- PeekController
\* `hit` is the class of the root window WindowFromPoint finds at the widget's
\* place on the desktop ("NULL": it finds none).
is_desktop_visible(hit) ==
    IF hit = "NULL" THEN TRUE
    ELSE hit \in {"Progman", "WorkerW", ""}

\* _peek_hidden that forgets the remembered position without restoring it.
peek_hidden_no_restore(st) ==
    LET s1 == [st EXCEPT !.peek_animating = FALSE, !.peek_visible = FALSE,
                         !.win.shown = FALSE, !.win.top = FALSE,
                         !.saved_pos = NoPos]
    IN  after(s1, Cb("embed"))

peek_hidden(st) ==
    LET s1 == [st EXCEPT !.peek_animating = FALSE, !.peek_visible = FALSE,
                         !.win.shown = FALSE, !.win.top = FALSE]
        s2 == IF s1.saved_pos # NoPos
              THEN [geometry(s1, s1.saved_pos[1], s1.saved_pos[2])
                        EXCEPT !.config.x = s1.saved_pos[1],
                               !.config.y = s1.saved_pos[2],
                               !.saved_pos = NoPos]
              ELSE s1
    IN  after(s2, Cb("embed"))

RECURSIVE animate_slide(_, _, _, _, _, _, _, _, _)

peek_hide(st) ==
    IF ~st.peek_visible \/ st.peek_animating THEN st
    ELSE LET s1 == [st EXCEPT !.peek_animating = TRUE]
             screen_right == screen.x + screen.w
         IN  animate_slide(s1, s1.win.x, screen_right, s1.win.y, SlideStep,
                           "peek_hidden", 0, s1.win.x, NoMouse)

\* `m` is the cursor position GetCursorPos reports.
peek_check_mouse(st, m) ==
    IF ~st.peek_visible \/ st.peek_animating THEN st
    ELSE LET mx == m[1]
             my == m[2]
             ox == st.win.x
             oy == st.win.y
             over_overlay == /\ ox <= mx /\ mx <= ox + OverlayW
                             /\ oy <= my /\ my <= oy + OverlayH
             over_trigger == mx >= screen.x + screen.w - TriggerSlack
         IN  IF over_overlay \/ over_trigger
             THEN after(st, Cb("mouse"))
             ELSE peek_hide(st)

peek_shown(st, m) ==
    peek_check_mouse([st EXCEPT !.peek_animating = FALSE,
                                !.peek_visible = TRUE], m)

\* _animate_slide without the snap: the completing call leaves the window where
\* the last step put it.
animate_slide_nosnap(st, current_x, target_x, y, step, callback, n, start, m) ==
    IF ~st.running \/ ~st.peek_animating THEN st
    ELSE IF \/ step < 0 /\ current_x <= target_x
            \/ step > 0 /\ current_x >= target_x
    THEN LET s1 == [geometry(st, current_x, y) EXCEPT !.ticks = Append(@,
                        [n |-> n + 1, start |-> start, target |-> target_x,
                         step |-> step, placed |-> current_x, done |-> TRUE])]
         IN  IF callback = "peek_shown" THEN peek_shown(s1, m)
             ELSE peek_hidden(s1)
    ELSE LET s1 == [geometry(st, current_x, y) EXCEPT !.ticks = Append(@,
                        [n |-> n + 1, start |-> start, target |-> target_x,
                         step |-> step, placed |-> current_x, done |-> FALSE])]
         IN  after(s1, AnimCb(current_x + step, target_x, y, step, callback,
                              n + 1, start))

\* n and start are history: the calls this chain has made, and where it began.
animate_slide(st, current_x, target_x, y, step, callback, n, start, m) ==
    IF ~st.running \/ ~st.peek_animating THEN st
    ELSE IF \/ step < 0 /\ current_x <= target_x
            \/ step > 0 /\ current_x >= target_x
    THEN LET s1 == [geometry(st, target_x, y) EXCEPT !.ticks = Append(@,
                        [n |-> n + 1, start |-> start, target |-> target_x,
                         step |-> step, placed |-> target_x, done |-> TRUE])]
         IN  IF callback = "peek_shown" THEN peek_shown(s1, m)
             ELSE peek_hidden(s1)
    ELSE LET s1 == [geometry(st, current_x, y) EXCEPT !.ticks = Append(@,
                        [n |-> n + 1, start |-> start, target |-> target_x,
                         step |-> step, placed |-> current_x, done |-> FALSE])]
         IN  after(s1, AnimCb(current_x + step, target_x, y, step, callback,
                              n + 1, start))

\* _peek_show with the desktop test the other way round.
peek_show_when_visible(st, hit) ==
    IF st.peek_visible \/ st.peek_animating \/ st.topmost THEN st
    ELSE IF ~is_desktop_visible(hit) THEN [st EXCEPT !.hits = Append(@, hit)]
    ELSE LET s1 == [st EXCEPT !.hits = Append(@, hit),
                              !.peek_animating = TRUE,
                              !.saved_pos = <<st.config.x, st.config.y>>,
                              !.embedded = FALSE,
                              !.win.top = TRUE, !.win.bottom = FALSE]
             screen_right == screen.x + screen.w
             target_x == screen_right - OverlayW
             target_y == s1.saved_pos[2]
             s2 == geometry(s1, screen_right, target_y)
         IN  animate_slide(s2, screen_right, target_x, target_y, -SlideStep,
                           "peek_shown", 0, screen_right, NoMouse)

peek_show(st, hit) ==
    IF st.peek_visible \/ st.peek_animating \/ st.topmost THEN st
    ELSE IF is_desktop_visible(hit) THEN [st EXCEPT !.hits = Append(@, hit)]
    ELSE LET s1 == [st EXCEPT !.hits = Append(@, hit),
                              !.peek_animating = TRUE,
                              !.saved_pos = <<st.config.x, st.config.y>>,
                              !.embedded = FALSE,
                              !.win.top = TRUE, !.win.bottom = FALSE]
             screen_right == screen.x + screen.w
             target_x == screen_right - OverlayW
             target_y == s1.saved_pos[2]
             s2 == geometry(s1, screen_right, target_y)
         IN  animate_slide(s2, screen_right, target_x, target_y, -SlideStep,
                           "peek_shown", 0, screen_right, NoMouse)

\* toggle_peek that leaves a revealed widget to the mouse poll.
toggle_peek_no_hide(st) ==
    LET s1 == [st EXCEPT !.peek_enabled = ~@]
    IN  IF s1.peek_enabled /\ ~s1.topmost
        THEN [s1 EXCEPT !.trig.shown = TRUE]
        ELSE [s1 EXCEPT !.trig.shown = FALSE]

\* toggle_peek that shows the strip whenever the feature is on.
toggle_peek_ignores_topmost(st) ==
    LET s1 == [st EXCEPT !.peek_enabled = ~@]
    IN  IF s1.peek_enabled
        THEN [s1 EXCEPT !.trig.shown = TRUE]
        ELSE LET s2 == [s1 EXCEPT !.trig.shown = FALSE]
             IN  IF s2.peek_visible THEN peek_hide(s2) ELSE s2

toggle_peek(st) ==
    LET s1 == [st EXCEPT !.peek_enabled = ~@]
    IN  IF s1.peek_enabled /\ ~s1.topmost
        THEN [s1 EXCEPT !.trig.shown = TRUE]
        ELSE LET s2 == [s1 EXCEPT !.trig.shown = FALSE]
             IN  IF s2.peek_visible THEN peek_hide(s2) ELSE s2

\* toggle_topmost that leaves the peek flags as they are.
toggle_topmost_keeps_peek(st) ==
    LET s1 == [st EXCEPT !.topmost = ~@]
    IN  IF s1.topmost
        THEN LET s2 == [s1 EXCEPT !.trig.shown = FALSE, !.embedded = FALSE]
                 s3 == IF s2.saved_pos # NoPos
                       THEN [geometry(s2, s2.saved_pos[1], s2.saved_pos[2])
                                EXCEPT !.saved_pos = NoPos]
                       ELSE s2
             IN  [s3 EXCEPT !.win.top = TRUE, !.win.bottom = FALSE]
        ELSE LET s2 == after([s1 EXCEPT !.win.top = FALSE], Cb("embed"))
             IN  IF s2.peek_enabled THEN [s2 EXCEPT !.trig.shown = TRUE]
                 ELSE s2

toggle_topmost(st) ==
    LET s1 == [st EXCEPT !.topmost = ~@]
    IN  IF s1.topmost
        THEN LET s2 == [s1 EXCEPT !.trig.shown = FALSE,
                                  !.peek_visible = FALSE,
                                  !.peek_animating = FALSE,
                                  !.embedded = FALSE,
                                  !.timers =
                                      IF s1.peek_visible \/ s1.peek_animating
                                      THEN BagOfAll(MarkStale, @) ELSE @]
                 s3 == IF s2.saved_pos # NoPos
                       THEN [geometry(s2, s2.saved_pos[1], s2.saved_pos[2])
                                EXCEPT !.saved_pos = NoPos]
                       ELSE s2
             IN  [s3 EXCEPT !.win.top = TRUE, !.win.bottom = FALSE]
        ELSE LET s2 == after([s1 EXCEPT !.win.top = FALSE], Cb("embed"))
             IN  IF s2.peek_enabled THEN [s2 EXCEPT !.trig.shown = TRUE]
                 ELSE s2

\* on_drag that writes the remembered position in every state.
on_drag_always_remembers(st, p) ==
    [geometry(st, p[1], p[2]) EXCEPT !.saved_pos = p]

on_drag(st, p) ==
    LET s1 == geometry(st, p[1], p[2])
    IN  IF s1.peek_visible \/ s1.peek_animating
        THEN [s1 EXCEPT !.saved_pos = p]
        ELSE [s1 EXCEPT !.config.x = p[1], !.config.y = p[2]]

\* end_drag that writes nothing.
end_drag_keeps_config(st) == st

end_drag(st) ==
    IF st.saved_pos # NoPos
    THEN [st EXCEPT !.config.x = st.saved_pos[1], !.config.y = st.saved_pos[2]]
    ELSE st

\* The UI-thread part of quit(): every pending after() callback is cancelled,
\* the docked position goes to the config, the trigger strip is destroyed.
\* quit() that cancels nothing.
quit_ui_keeps_timers(st) ==
    LET s1 == [st EXCEPT !.running = FALSE]
        s2 == IF s1.saved_pos # NoPos
              THEN [s1 EXCEPT !.config.x = s1.saved_pos[1],
                              !.config.y = s1.saved_pos[2]]
              ELSE IF ~s1.peek_visible /\ ~s1.peek_animating
              THEN [s1 EXCEPT !.config.x = s1.win.x, !.config.y = s1.win.y]
              ELSE s1
    IN  [s2 EXCEPT !.trig.shown = FALSE]

\* quit() that saves the window's position in every state.
quit_ui_saves_window(st) ==
    LET s1 == [st EXCEPT !.running = FALSE, !.timers = EmptyBag]
        s2 == [s1 EXCEPT !.config.x = s1.win.x, !.config.y = s1.win.y]
    IN  [s2 EXCEPT !.trig.shown = FALSE]

quit_ui(st) ==
    LET s1 == [st EXCEPT !.running = FALSE, !.timers = EmptyBag]
        s2 == IF s1.saved_pos # NoPos
              THEN [s1 EXCEPT !.config.x = s1.saved_pos[1],
                              !.config.y = s1.saved_pos[2]]
              ELSE IF ~s1.peek_visible /\ ~s1.peek_animating
              THEN [s1 EXCEPT !.config.x = s1.win.x, !.config.y = s1.win.y]
              ELSE s1
    IN  [s2 EXCEPT !.trig.shown = FALSE]

\* OverlayApp.__init__: the saved position must be within the virtual screen.
validate_position(p, s) ==
    IF \/ p[1] < s.x \/ p[1] >= s.x + s.w
       \/ p[2] < s.y \/ p[2] >= s.y + s.h
    THEN <<DefaultX, DefaultY>>
    ELSE p

\* ------------------------------------------------------------- sensor backend
\* Optional values: None is <<>>, a value v is <<v>>.
None == <<>>
Some(v) == <<v>>

\* The `data` dict read_sensors starts from.
BlankData ==
    [cpu_temp |-> None, cpu_load |-> None, gpu_temp |-> None,
     gpu_load |-> None, cpu_fan |-> None, cpu_fan_pct |-> None,
     gpu_fan |-> None, gpu_fan_pct |-> None, gpu_vram_pct |-> None,
     ram_pct |-> None, disks |-> <<>>]

\* What the backend's sensors report in one cycle, already matched by name.
HwReadings ==
    { [cpu_temp |-> Some(40), cpu_load |-> Some(10), gpu_temp |-> Some(50),
       gpu_load |-> None, cpu_fan |-> Some(900), cpu_fan_pct |-> None,
       gpu_fan |-> None, gpu_fan_pct |-> Some(30), gpu_vram_pct |-> None,
       ram_pct |-> None,
       disks |-> << [name |-> "970 EVO", temp |-> Some(35),
                     used_pct |-> None] >>],
      [cpu_temp |-> Some(90), cpu_load |-> None, gpu_temp |-> None,
       gpu_load |-> None, cpu_fan |-> Some(2000), cpu_fan_pct |-> None,
       gpu_fan |-> Some(0), gpu_fan_pct |-> None, gpu_vram_pct |-> None,
       ram_pct |-> Some(60), disks |-> <<>>] }

\* What psutil reports: [cpu |-> cpu_percent, ram |-> virtual_memory().percent].
OsReadings == { [cpu |-> 5, ram |-> 40] }

\* read_sensors without the early return for computer = None.
read_sensors_always_hw(comp, hw, os) ==
    LET d == [k \in DOMAIN BlankData |-> hw[k]]
        d1 == IF d.cpu_load = None
              THEN [d EXCEPT !.cpu_load = Some(os.cpu)] ELSE d
    IN  IF d1.ram_pct = None
        THEN [d1 EXCEPT !.ram_pct = Some(os.ram)] ELSE d1

\* read_sensors(computer): `hw` is what the backend reports, `os` what psutil
\* reports.  The OS counters fill cpu_load and ram_pct when the backend gave none.
read_sensors(comp, hw, os) ==
    IF comp = 0
    THEN [BlankData EXCEPT !.cpu_load = Some(os.cpu), !.ram_pct = Some(os.ram)]
    ELSE LET d == [k \in DOMAIN BlankData |-> hw[k]]
             d1 == IF d.cpu_load = None
                   THEN [d EXCEPT !.cpu_load = Some(os.cpu)] ELSE d
         IN  IF d1.ram_pct = None
             THEN [d1 EXCEPT !.ram_pct = Some(os.ram)] ELSE d1

ErrorData == [error |-> "read failed"]

\* Close() on the handle self.computer names; on None it raises, and both
\* callers swallow the exception.
close_handle(cl, comp) ==
    IF comp # 0 THEN [cl EXCEPT ![comp] = @ + 1] ELSE cl

\* The test without the handle.
needs_reinit_any(errors, comp) == errors >= ReinitAfter

\* The test one failure early.
needs_reinit_early(errors, comp) == errors >= ReinitAfter - 1 /\ comp # 0

\* sensor_loop's test after a failed read.
needs_reinit(errors, comp) == errors >= ReinitAfter /\ comp # 0

\* -------------------------------------------------------------------- setup.py
\* File contents are small integers; NoData is no content.
NoData == 0
Contents == {1, 2, 3}

\* hashlib.sha256(data).hexdigest(): one digest per content.
sha256(data) == <<"sha256", data>>

\* PACKAGES, in the order .items() yields them: the DLL's path in the archive,
\* and the expected digests by file name.
PACKAGES ==
    << [name |-> "LibreHardwareMonitorLib",
        dll |-> [dir |-> "lib/net4", base |-> "LibreHardwareMonitorLib.dll",
                 upper |-> FALSE],
        hashes |-> [f \in {"LibreHardwareMonitorLib.dll"} |-> sha256(1)]],
       [name |-> "HidSharp",
        dll |-> [dir |-> "lib/net4", base |-> "HidSharp.dll", upper |-> FALSE],
        hashes |-> [f \in {"HidSharp.dll"} |-> sha256(2)]] >>

DllNames == {PACKAGES[i].dll.base : i \in DOMAIN PACKAGES}

\* Paths an archive of package i can hold: [dir, base, upper], where `base` is
\* the file name as PACKAGES spells it and `upper` says that the archive
\* spells it in another case.
ArchivePaths(i) ==
    { PACKAGES[i].dll,
      [dir |-> "lib/net45", base |-> PACKAGES[i].dll.base, upper |-> TRUE],
      [dir |-> "lib/net45", base |-> PACKAGES[i].dll.base, upper |-> FALSE],
      [dir |-> "lib/net4", base |-> "readme.txt", upper |-> FALSE] }

\* The archives: up to two entries with different paths, in namelist() order.
Archives(i) ==
    {<<>>} \cup
    { <<[path |-> p, data |-> d]>> : p \in ArchivePaths(i), d \in Contents } \cup
    { a \in { <<[path |-> p1, data |-> d1], [path |-> p2, data |-> d2]>> :
                p1 \in ArchivePaths(i), p2 \in ArchivePaths(i),
                d1 \in Contents, d2 \in Contents } :
        a[1].path # a[2].path }

\* What urlopen(...).read() gives for package i: an exception, bytes that are
\* no zip file, or an archive.
Downloads(i) ==
    { [kind |-> "error", entries |-> <<>>], [kind |-> "notzip", entries |-> <<>>] }
    \cup { [kind |-> "zip", entries |-> a] : a \in Archives(i) }

\* _verify_hash(data, filename, expected_hashes)
verify_hash(data, filename, expected_hashes) ==
    IF filename \notin DOMAIN expected_hashes THEN FALSE
    ELSE sha256(data) = expected_hashes[filename]

\* os.path.basename(entry).lower() == os.path.basename(dll_path).lower()
SameBaseName(p, q) == p.base = q.base

\* The entry the loop over info["dlls"] reads for dll_path: the one at the
\* exact path, else the first one with the same lower-cased base name; 0 when
\* there is none.
FindEntry(entries, dll) ==
    IF \E i \in DOMAIN entries : entries[i].path = dll
    THEN CHOOSE i \in DOMAIN entries : entries[i].path = dll
    ELSE IF \E i \in DOMAIN entries : SameBaseName(entries[i].path, dll)
    THEN CHOOSE i \in DOMAIN entries :
             /\ SameBaseName(entries[i].path, dll)
             /\ \A j \in 1..(i - 1) : ~SameBaseName(entries[j].path, dll)
    ELSE 0

Running == -1

\* One iteration of download_and_extract's loop that writes the DLL before it
\* verifies it.
extract_package_writes_first(i, lib, dl) ==
    IF dl.kind # "zip"
    THEN [lib |-> lib, exit |-> 1, checks |-> <<>>]
    ELSE LET e == FindEntry(dl.entries, PACKAGES[i].dll)
             out_name == PACKAGES[i].dll.base
         IN  IF e = 0 THEN [lib |-> lib, exit |-> Running, checks |-> <<>>]
             ELSE LET ok == verify_hash(dl.entries[e].data, out_name,
                                        PACKAGES[i].hashes)
                      chk == <<[name |-> out_name, data |-> dl.entries[e].data,
                                ok |-> ok]>>
                  IN  [lib |-> [lib EXCEPT ![out_name] = dl.entries[e].data],
                       exit |-> IF ok THEN Running ELSE 1, checks |-> chk]

\* One iteration of download_and_extract's loop for package i on the download
\* `dl`: the lib directory after it, the exit status (Running: the loop goes
\* on) and the hash checks it made.
extract_package(i, lib, dl) ==
    IF dl.kind # "zip"
    THEN [lib |-> lib, exit |-> 1, checks |-> <<>>]
    ELSE LET e == FindEntry(dl.entries, PACKAGES[i].dll)
             out_name == PACKAGES[i].dll.base
         IN  IF e = 0 THEN [lib |-> lib, exit |-> Running, checks |-> <<>>]
             ELSE LET ok == verify_hash(dl.entries[e].data, out_name,
                                        PACKAGES[i].hashes)
                      chk == <<[name |-> out_name, data |-> dl.entries[e].data,
                                ok |-> ok]>>
                  IN  IF ~ok
                      THEN [lib |-> lib, exit |-> 1, checks |-> chk]
                      ELSE [lib |-> [lib EXCEPT ![out_name] =
                                        dl.entries[e].data],
                            exit |-> Running, checks |-> chk]

\* setup.py has been started: os.makedirs(LIB_DIR, exist_ok=True) is done.
InitSetup ==
    /\ lib_dir = [f \in DllNames |-> NoData]
    /\ setup_pc = 1
    /\ exit_code = Running
    /\ verified = <<>>
    /\ package = [kind |-> "none", entries |-> <<>>]

\* ---------------------------------------------------------------------- Config
\* Python values as [t, v]: t is the type, v the number behind it (a bool's 0
\* or 1, a float's value in tenths, the sign of an infinity, 0 otherwise).
PyInt(n) == [t |-> "int", v |-> n]
PyBool(b) == [t |-> "bool", v |-> IF b THEN 1 ELSE 0]
PyFloat(tenths) == [t |-> "float", v |-> tenths]
PyNan == [t |-> "nan", v |-> 0]
PyInf(sign) == [t |-> "inf", v |-> sign]
PyStr == [t |-> "str", v |-> 0]
PyNone == [t |-> "NoneType", v |-> 0]

\* JSON text as [lex, n]: the kind of literal and the number it spells (a real
\* literal in tenths); "absent" stands for a member the object does not have.
JInt(n) == [lex |-> "int", n |-> n]
JReal(tenths) == [lex |-> "real", n |-> tenths]
JTrue == [lex |-> "true", n |-> 0]
JFalse == [lex |-> "false", n |-> 0]
JNull == [lex |-> "null", n |-> 0]
JString == [lex |-> "string", n |-> 0]
JNaN == [lex |-> "NaN", n |-> 0]
JInfinity == [lex |-> "Infinity", n |-> 0]
JMinusInfinity == [lex |-> "-Infinity", n |-> 0]
JAbsent == [lex |-> "absent", n |-> 0]

\* json.dump of one value (allow_nan is left at True).
dumps(val) ==
    CASE val.t = "int" -> JInt(val.v)
      [] val.t = "bool" -> IF val.v = 1 THEN JTrue ELSE JFalse
      [] val.t = "float" -> JReal(val.v)
      [] val.t = "nan" -> JNaN
      [] val.t = "inf" -> IF val.v > 0 THEN JInfinity ELSE JMinusInfinity
      [] val.t = "str" -> JString
      [] OTHER -> JNull

\* json.load of one literal; cfg.get gives None for an absent member.
loads(tok) ==
    CASE tok.lex = "int" -> PyInt(tok.n)
      [] tok.lex = "real" -> PyFloat(tok.n)
      [] tok.lex = "true" -> PyBool(TRUE)
      [] tok.lex = "false" -> PyBool(FALSE)
      [] tok.lex = "NaN" -> PyNan
      [] tok.lex = "Infinity" -> PyInf(1)
      [] tok.lex = "-Infinity" -> PyInf(-1)
      [] tok.lex = "string" -> PyStr
      [] OTHER -> PyNone

Keys ==
    {"x", "y", "peek_enabled", "alerts_enabled", "gpu_fan_max_rpm",
     "cpu_fan_max_rpm"}

defaults ==
    [x |-> PyInt(DefaultX), y |-> PyInt(DefaultY), peek_enabled |-> PyBool(TRUE),
     alerts_enabled |-> PyBool(TRUE),
     gpu_fan_max_rpm |-> PyInt(DefaultGpuFanMax),
     cpu_fan_max_rpm |-> PyInt(DefaultCpuFanMax)]

NoFile == [kind |-> "missing", doc |-> <<>>]
GarbageFile == [kind |-> "garbage", doc |-> <<>>]
ArrayFile == [kind |-> "json", doc |-> [lex |-> "array", members |-> <<>>]]
ObjectFile(members) ==
    [kind |-> "json", doc |-> [lex |-> "object", members |-> members]]
NoCfg == <<>>

\* isinstance(val, (int, float)): bool is a subclass of int.
IsNumber(val) == val.t \in {"int", "bool", "float", "nan", "inf"}

\* isinstance(val, bool)
IsBool(val) == val.t = "bool"

\* int(val) raises ValueError on nan and OverflowError on an infinity.
IntRaises(val) == val.t \in {"nan", "inf"}

\* int(val) for a number it accepts: a float is truncated towards zero.
ToInt(val) ==
    IF val.t = "float"
    THEN PyInt(IF val.v >= 0 THEN val.v \div 10 ELSE -((-val.v) \div 10))
    ELSE PyInt(val.v)

\* val <= 0; every comparison with nan is False.
NonPositive(val) ==
    CASE val.t = "nan" -> FALSE
      [] OTHER -> val.v <= 0

\* load_config's loop bodies: the value a key gets, and whether getting it
\* raises.
LoadField(key, val) ==
    CASE key \in {"x", "y"} ->
            IF ~IsNumber(val) THEN defaults[key] ELSE ToInt(val)
      [] key \in {"peek_enabled", "alerts_enabled"} ->
            IF ~IsBool(val) THEN defaults[key] ELSE val
      [] OTHER ->
            IF ~IsNumber(val) \/ NonPositive(val) THEN defaults[key]
            ELSE ToInt(val)

LoadRaises(key, val) ==
    CASE key \in {"x", "y"} -> IsNumber(val) /\ IntRaises(val)
      [] key \in {"peek_enabled", "alerts_enabled"} -> FALSE
      [] OTHER -> IsNumber(val) /\ ~NonPositive(val) /\ IntRaises(val)

\* load_config on the file `f`; every exception ends in `return defaults`.
load_config(f) ==
    IF f.kind # "json" THEN defaults
    ELSE IF f.doc.lex # "object" THEN defaults
    ELSE LET cfg == [k \in Keys |-> loads(f.doc.members[k])]
         IN  IF \E k \in Keys : LoadRaises(k, cfg[k]) THEN defaults
             ELSE [k \in Keys |-> LoadField(k, cfg[k])]

\* json.dump that writes a bool the way it writes the int it is.
save_config_bool_as_int(cfg) ==
    ObjectFile([k \in Keys |->
                   IF cfg[k].t = "bool" THEN JInt(cfg[k].v) ELSE dumps(cfg[k])])

\* save_config: the file after json.dump(cfg, f).
save_config(cfg) == ObjectFile([k \in Keys |-> dumps(cfg[k])])

\* Config dicts with valid fields.
ValidConfigs ==
    { [x |-> PyInt(cx), y |-> PyInt(cy), peek_enabled |-> PyBool(pe),
       alerts_enabled |-> PyBool(ae), gpu_fan_max_rpm |-> PyInt(g),
       cpu_fan_max_rpm |-> PyInt(c)] :
        cx \in {-5, 0, 70}, cy \in {20}, pe \in BOOLEAN, ae \in BOOLEAN,
        g \in {1, 2500}, c \in {DefaultCpuFanMax} }

\* What a member of a hand-edited or damaged file may be.
FileTokens ==
    {JAbsent, JNull, JString, JTrue, JInt(0), JInt(-3), JInt(7), JReal(35),
     JReal(5), JNaN, JInfinity, JMinusInfinity}

\* The files load_config is run on: a saved valid config with up to two
\* members replaced, a file that is no JSON, a JSON array, and no file.
ConfigFiles ==
    {NoFile, GarbageFile, ArrayFile} \cup
    { ObjectFile([k \in Keys |->
                    IF k = k1 THEN t1 ELSE IF k = k2 THEN t2
                    ELSE save_config(c).doc.members[k]]) :
        c \in {d \in ValidConfigs : d.x.v = 70 /\ d.gpu_fan_max_rpm.v = 2500},
        k1 \in Keys, k2 \in Keys, t1 \in FileTokens, t2 \in FileTokens }

\* -------------------------------------------------------------- UIRefreshLoop
\* The instants time.time() returns to the ticks that reach _check_alerts.
Instants == {1000, 1030, 1070}

CRITICAL ==
    [cpu_temp |-> 85, gpu_temp |-> 90, disk_temp |-> 55, disk_used |-> 90,
     ram_pct |-> 95]

\* A label's text as [n, s]: the number it shows (None: no number) and the
\* characters around it.
Text(n, s) == [n |-> n, s |-> s]

\* f"{v}{unit}", or `blank` for None.
LabelText(v, unit, blank) == IF v = None THEN Text(None, blank) ELSE Text(v, unit)

\* The value labels as _make_row creates them; no disk row yet.
NewRows ==
    [k \in {"cpu_temp", "cpu_load", "gpu_temp", "gpu_load", "vram", "gpu_fan",
             "cpu_fan", "ram"} |-> Text(None, "--")] @@ [disks |-> <<>>]

\* round(n / d) as Python rounds: to the nearest integer, a tie to the even one.
Round(n, d) ==
    LET q == n \div d
        r == n % d
    IN  IF 2 * r < d THEN q
        ELSE IF 2 * r > d THEN q + 1
        ELSE IF q % 2 = 0 THEN q ELSE q + 1

\* A fan label: the duty cycle when the backend gives it, else the speed as an
\* estimated share of the calibration ceiling.
FanText(pct, rpm, max_rpm) ==
    IF pct # None
    THEN IF pct[1] = 0 THEN Text(None, "OFF") ELSE Text(pct, "%")
    ELSE IF rpm # None
         THEN IF rpm[1] = 0 THEN Text(None, "OFF")
              ELSE LET est_pct == Round(rpm[1] * 100, max_rpm)
                   IN  Text(Some(IF est_pct < 100 THEN est_pct ELSE 100), "~%")
         ELSE Text(None, "--")

\* The calibration ceiling after a tick that observed `rpm`.
Calibrate(max_rpm, rpm) ==
    IF rpm # None /\ rpm[1] > max_rpm THEN rpm[1] ELSE max_rpm

\* The disk rows after a tick: rebuilt when the list of names changed, then
\* every row that has a disk is rewritten.
DiskRows(st, disks) ==
    LET names == [i \in DOMAIN disks |-> disks[i].name]
        old == IF names # st.last_disk_names
               THEN [i \in DOMAIN disks |->
                        [temp |-> Text(None, "--"), usage |-> Text(None, "")]]
               ELSE st.rows.disks
    IN  [i \in DOMAIN old |->
            IF i <= Len(disks)
            THEN [temp |-> LabelText(disks[i].temp, "C", "--"),
                  usage |-> LabelText(disks[i].used_pct, "%", "")]
            ELSE old[i]]

Critical(v, limit) == v # None /\ v[1] >= limit

\* _check_alerts: the time of the alert it raises, or the time it leaves.
check_alerts(st, data, now) ==
    IF ~st.alerts_enabled THEN st
    ELSE IF now - st.last_alert_time < AlertCooldown THEN st
    ELSE IF \/ Critical(data.cpu_temp, CRITICAL.cpu_temp)
            \/ Critical(data.gpu_temp, CRITICAL.gpu_temp)
            \/ Critical(data.ram_pct, CRITICAL.ram_pct)
            \/ \E i \in DOMAIN data.disks :
                  \/ Critical(data.disks[i].temp, CRITICAL.disk_temp)
                  \/ Critical(data.disks[i].used_pct, CRITICAL.disk_used)
         THEN [st EXCEPT !.last_alert_time = now]
         ELSE st

\* The part of update_ui that a snapshot without "error" reaches.
render(st, data, now) ==
    LET gmax == Calibrate(st.GPU_FAN_MAX_RPM, data.gpu_fan)
        cmax == Calibrate(st.CPU_FAN_MAX_RPM, data.cpu_fan)
        s1 == [st EXCEPT
                 !.GPU_FAN_MAX_RPM = gmax,
                 !.CPU_FAN_MAX_RPM = cmax,
                 !.rows = [cpu_temp |-> LabelText(data.cpu_temp, "C", "--"),
                           cpu_load |-> LabelText(data.cpu_load, "%", ""),
                           gpu_temp |-> LabelText(data.gpu_temp, "C", "--"),
                           gpu_load |-> LabelText(data.gpu_load, "%", ""),
                           vram |-> LabelText(data.gpu_vram_pct, "%", "--"),
                           gpu_fan |-> FanText(data.gpu_fan_pct, data.gpu_fan,
                                               gmax),
                           cpu_fan |-> FanText(data.cpu_fan_pct, data.cpu_fan,
                                               cmax),
                           ram |-> LabelText(data.ram_pct, "%", "--"),
                           disks |-> DiskRows(st, data.disks)],
                 !.last_disk_names =
                     [i \in DOMAIN data.disks |-> data.disks[i].name]]
    IN  check_alerts(s1, data, now)

\* update_ui that treats an error snapshot as a snapshot without readings.
update_ui_renders_error(st, data, now) ==
    IF ~st.running THEN st
    ELSE IF data = <<>> THEN after(st, Cb("update"))
    ELSE IF "error" \in DOMAIN data
         THEN after(render(st, BlankData, now), Cb("update"))
         ELSE after(render(st, data, now), Cb("update"))

\* update_ui; `data` is the copy it took of self.sensor_data and `now` what
\* time.time() returns.  It returns at once after quit(), and on every other
\* path (empty store, error snapshot, rendered snapshot) it ends by scheduling
\* itself.
update_ui(st, data, now) ==
    IF ~st.running THEN st
    ELSE IF data = <<>> THEN after(st, Cb("update"))
    ELSE IF "error" \in DOMAIN data THEN after(st, Cb("update"))
    ELSE after(render(st, data, now), Cb("update"))

toggle_alerts(st) == [st EXCEPT !.alerts_enabled = ~@]

\* ------------------------------------------------- the store as Python objects
\* The heap is a sequence of objects and a reference is an index into it (0 is
\* no reference).  A dict holds its scalar items by value (ints, strings and
\* None are immutable) and its "disks" item as a reference to a list object
\* (0: the dict has no such key); a list holds references to disk dicts.
DictObj(scalars, disks) == [kind |-> "dict", scalars |-> scalars, disks |-> disks]
ListObj(items) == [kind |-> "list", items |-> items]
DiskObj(d) == [kind |-> "disk", rec |-> d]

\* self.sensor_data = {} in __init__.
EmptyDict == DictObj(<<>>, 0)

\* The objects read_sensors builds for the snapshot `data`: one dict per disk,
\* the disks list, the data dict; `ref` is the data dict.
alloc_snapshot(h, data) ==
    LET k == Len(data.disks)
        base == Len(h)
        h1 == h \o [i \in 1..k |-> DiskObj(data.disks[i])]
        h2 == Append(h1, ListObj([i \in 1..k |-> base + i]))
    IN  [heap |-> Append(h2, DictObj([data EXCEPT !.disks = <<>>], base + k + 1)),
         ref |-> base + k + 2]

\* copy.copy: a new dict whose items are the same objects.
shallowcopy(h, a) == [heap |-> Append(h, h[a]), ref |-> Len(h) + 1]

\* copy.deepcopy of the dict at a: new disk dicts, a new list of them, a new
\* dict holding the new list.
deepcopy(h, a) ==
    LET o == h[a]
    IN  IF o.disks = 0 THEN [heap |-> Append(h, o), ref |-> Len(h) + 1]
        ELSE LET items == h[o.disks].items
                 k == Len(items)
                 base == Len(h)
                 h1 == h \o [i \in 1..k |-> h[items[i]]]
                 h2 == Append(h1, ListObj([i \in 1..k |-> base + i]))
             IN  [heap |-> Append(h2, [o EXCEPT !.disks = base + k + 1]),
                  ref |-> base + k + 2]

\* The value of the dict at a, as == compares it.
Value(h, a) ==
    LET o == h[a]
    IN  IF o.disks = 0 THEN o.scalars
        ELSE [o.scalars EXCEPT !.disks =
                 [i \in 1..Len(h[o.disks].items) |-> h[h[o.disks].items[i]].rec]]

\* The objects reachable from the dict at a.
Reach(h, a) ==
    IF a = 0 THEN {}
    ELSE IF h[a].disks = 0 THEN {a}
    ELSE {a, h[a].disks}
           \cup { h[h[a].disks].items[i] : i \in 1..Len(h[h[a].disks].items) }

\* A disk record the holder of a copy may add to it.
ExtraDisk == [name |-> "extra", temp |-> None, used_pct |-> None]

\* ---------------------------------------------------------------- UI actions
\* The state OverlayApp.__init__ leaves: on virtual screen s, with position p
\* and peek flag pe loaded from the config file.
InitUI(s, p, pe) ==
    /\ screen = s
    /\ pointer = NoMouse
    /\ InitSetup
    /\ peek_enabled = pe
    /\ LET q == validate_position(p, s)
       IN  /\ config = [x |-> q[1], y |-> q[2]]
           /\ win = [x |-> q[1], y |-> q[2], shown |-> FALSE, top |-> FALSE,
                  bottom |-> FALSE]
    /\ running = TRUE
    /\ topmost = FALSE
    /\ peek_visible = FALSE
    /\ peek_animating = FALSE
    /\ saved_pos = NoPos
    /\ embedded = FALSE
    /\ trig = [shown |-> peek_enabled, w |-> TriggerW, h |-> screen.h,
               x |-> screen.x + screen.w - TriggerW, y |-> screen.y]
    /\ last_screen = screen
    /\ timers = SetToBag({Cb("poll"), Cb("embed"), Cb("update")})
    /\ ticks = <<>>
    /\ hits = <<>>
    /\ rows = NewRows
    /\ last_disk_names = <<>>
    /\ GPU_FAN_MAX_RPM = DefaultGpuFanMax
    /\ CPU_FAN_MAX_RPM = DefaultCpuFanMax
    /\ last_alert_time = 0
    /\ alerts_enabled = TRUE

\* <Enter> on the trigger strip; a withdrawn strip receives no events.
TriggerEnter ==
    /\ running /\ trig.shown
    /\ \E hit \in HitClasses : Becomes(peek_show(St, hit))
    /\ UNCHANGED <<envvars, pvars, svars>>

\* A pending callback fires whenever the event loop gets to it; only quit()
\* cancels callbacks.
FireEmbed ==
    /\ Cb("embed") \in BagToSet(timers)
    /\ \E found \in BOOLEAN :
         Becomes(embed_into_desktop(Fired(Cb("embed")), found))
    /\ UNCHANGED <<envvars, pvars, svars>>

FirePoll ==
    /\ Cb("poll") \in BagToSet(timers)
    /\ Becomes(poll_screen_change(Fired(Cb("poll"))))
    /\ UNCHANGED <<envvars, pvars, svars>>

\* The pending _animate_slide tick t fires.
FireAnimAt(t, m) ==
    /\ t \in BagToSet(timers) /\ t.kind = "anim"
    /\ Becomes(animate_slide(Fired(t), t.cur, t.target, t.y, t.step, t.cb,
                             t.n, t.start, m))
    /\ UNCHANGED <<envvars, pvars, svars>>

FireAnimOf(t) == \E m \in MousePoints : FireAnimAt(t, m)

FireAnim == \E t \in BagToSet(timers) : FireAnimOf(t)

\* The pending _peek_check_mouse poll t fires.
FireMouseAt(t, m) ==
    /\ t \in BagToSet(timers) /\ t.kind = "mouse"
    /\ Becomes(peek_check_mouse(Fired(t), m))
    /\ UNCHANGED <<envvars, pvars, svars>>

FireMouseOf(t) == \E m \in MousePoints : FireMouseAt(t, m)

FireMouse == \E t \in BagToSet(timers) : FireMouseOf(t)

\* A tick of update_ui; it takes the lock for the copy, so it waits while the
\* sensor thread holds it.
FireUpdate ==
    /\ Cb("update") \in BagToSet(timers)
    /\ lock = "free"
    /\ \E now \in Instants :
          /\ now >= last_alert_time
          /\ Becomes(update_ui(Fired(Cb("update")), sensor_data, now))
    /\ u_data' = IF running THEN sensor_data ELSE u_data
    /\ UNCHANGED <<envvars, svars, lock, computer, stop_event, sensor_data,
                   p_pc, p_computer, p_data, consecutive_errors, q_pc, u_pc,
                   closes, n_handles, n_close, n_init>>

ToggleAlerts ==
    /\ running /\ win.shown
    /\ Becomes(toggle_alerts(St))
    /\ UNCHANGED <<envvars, pvars, svars>>

\* The menu opens by a right click on the window, so the window is shown.
TogglePeek ==
    /\ running /\ win.shown
    /\ Becomes(toggle_peek(St))
    /\ UNCHANGED <<envvars, pvars, svars>>

ToggleTopmost ==
    /\ running /\ win.shown
    /\ Becomes(toggle_topmost(St))
    /\ UNCHANGED <<envvars, pvars, svars>>

\* <B1-Motion> on the header; a withdrawn window receives no events.
OnDrag ==
    /\ running /\ win.shown
    /\ \E p \in DragPositions : Becomes(on_drag(St, p))
    /\ UNCHANGED <<envvars, pvars, svars>>

EndDrag ==
    /\ running /\ win.shown
    /\ Becomes(end_drag(St))
    /\ UNCHANGED <<envvars, pvars, svars>>

\* quit() as one handler: no sensor thread runs in Spec and SpecGeom, so the
\* lock is free and the close is immediate.
Quit ==
    /\ running /\ lock = "free"
    /\ Becomes(quit_ui(St))
    /\ stop_event' = TRUE
    /\ closes' = close_handle(closes, computer)
    /\ computer' = 0
    /\ UNCHANGED <<envvars, sensor_data, lock, p_pc, p_computer, p_data,
                   consecutive_errors, q_pc, u_pc, u_data, n_handles, n_close,
                   n_init, svars>>

\* The display configuration changes (resolution, monitor plugged or removed).
ScreenChange ==
    /\ running
    /\ \E s \in Screens : s # screen /\ screen' = s
    /\ UNCHANGED <<uivars, pvars, svars, config_file, saved_cfg, loaded_cfg,
                   pointer, instvars>>


\* ------------------------------------------------------------ sensor thread
\* `while True:` in place of the test of the stop event.
LoopTest_ignores_stop ==
    /\ p_pc = "loop"
    /\ p_pc' = "get"
    /\ UNCHANGED <<uivars, envvars, svars, lock, computer, stop_event,
                   sensor_data, p_computer, p_data, consecutive_errors, q_pc,
                   u_pc, u_data, closes, n_handles, n_close, n_init>>

\* while not self._stop_event.is_set():
LoopTest ==
    /\ p_pc = "loop"
    /\ p_pc' = IF stop_event THEN "done" ELSE "get"
    /\ UNCHANGED <<uivars, envvars, svars, lock, computer, stop_event,
                   sensor_data, p_computer, p_data, consecutive_errors, q_pc,
                   u_pc, u_data, closes, n_handles, n_close, n_init>>

\* with self.lock: computer = self.computer
GetAcquire ==
    /\ p_pc = "get" /\ lock = "free"
    /\ lock' = "poller"
    /\ p_pc' = "get_locked"
    /\ UNCHANGED <<uivars, envvars, svars, computer, stop_event, sensor_data,
                   p_computer, p_data, consecutive_errors, q_pc, u_pc, u_data,
                   closes, n_handles, n_close, n_init>>

GetRelease ==
    /\ p_pc = "get_locked"
    /\ p_computer' = computer
    /\ lock' = "free"
    /\ p_pc' = "read"
    /\ UNCHANGED <<uivars, envvars, svars, computer, stop_event, sensor_data,
                   p_data, consecutive_errors, q_pc, u_pc, u_data, closes,
                   n_handles, n_close, n_init>>

\* data = read_sensors(computer): the call is entered ...
ReadStart ==
    /\ p_pc = "read"
    /\ p_pc' = "reading"
    /\ UNCHANGED <<uivars, envvars, svars, lock, computer, stop_event,
                   sensor_data, p_computer, p_data, consecutive_errors, q_pc,
                   u_pc, u_data, closes, n_handles, n_close, n_init>>

\* ... and returns a snapshot ...
ReadReturn ==
    /\ p_pc = "reading"
    /\ \E hw \in HwReadings, os \in OsReadings :
         p_data' = read_sensors(p_computer, hw, os)
    /\ p_pc' = "put"
    /\ UNCHANGED <<uivars, envvars, svars, lock, computer, stop_event,
                   sensor_data, p_computer, consecutive_errors, q_pc, u_pc,
                   u_data, closes, n_handles, n_close, n_init>>

\* ... or raises: except Exception: consecutive_errors += 1
ReadRaise ==
    /\ p_pc = "reading"
    /\ consecutive_errors < MaxErrors
    /\ consecutive_errors' = consecutive_errors + 1
    /\ p_pc' = "err"
    /\ UNCHANGED <<uivars, envvars, svars, lock, computer, stop_event,
                   sensor_data, p_computer, p_data, q_pc, u_pc, u_data, closes,
                   n_handles, n_close, n_init>>

\* with self.lock: self.sensor_data = data
PutAcquire ==
    /\ p_pc = "put" /\ lock = "free"
    /\ lock' = "poller"
    /\ p_pc' = "put_locked"
    /\ UNCHANGED <<uivars, envvars, svars, computer, stop_event, sensor_data,
                   p_computer, p_data, consecutive_errors, q_pc, u_pc, u_data,
                   closes, n_handles, n_close, n_init>>

\* A publish that leaves the failure counter as it is.
PutRelease_keeps_count ==
    /\ p_pc = "put_locked"
    /\ sensor_data' = p_data
    /\ lock' = "free"
    /\ p_pc' = "wait"
    /\ UNCHANGED <<uivars, envvars, svars, computer, stop_event, p_computer,
                   p_data, q_pc, u_pc, u_data, closes, n_handles, n_close,
                   n_init, consecutive_errors>>

\* ... then consecutive_errors = 0
PutRelease ==
    /\ p_pc = "put_locked"
    /\ sensor_data' = p_data
    /\ lock' = "free"
    /\ consecutive_errors' = 0
    /\ p_pc' = "wait"
    /\ UNCHANGED <<uivars, envvars, svars, computer, stop_event, p_computer,
                   p_data, q_pc, u_pc, u_data, closes, n_handles, n_close,
                   n_init>>

\* with self.lock: self.sensor_data = {"error": str(e)}
ErrAcquire ==
    /\ p_pc = "err" /\ lock = "free"
    /\ lock' = "poller"
    /\ p_pc' = "err_locked"
    /\ UNCHANGED <<uivars, envvars, svars, computer, stop_event, sensor_data,
                   p_computer, p_data, consecutive_errors, q_pc, u_pc, u_data,
                   closes, n_handles, n_close, n_init>>

\* ... then: if consecutive_errors >= 3 and computer is not None
ErrRelease ==
    /\ p_pc = "err_locked"
    /\ sensor_data' = ErrorData
    /\ lock' = "free"
    /\ p_pc' = IF needs_reinit(consecutive_errors, p_computer)
               THEN "reinit" ELSE "wait"
    /\ UNCHANGED <<uivars, envvars, svars, computer, stop_event, p_computer,
                   p_data, consecutive_errors, q_pc, u_pc, u_data, closes,
                   n_handles, n_close, n_init>>

ReinitAcquire ==
    /\ p_pc = "reinit" /\ lock = "free"
    /\ lock' = "poller"
    /\ p_pc' = "reinit_locked"
    /\ UNCHANGED <<uivars, envvars, svars, computer, stop_event, sensor_data,
                   p_computer, p_data, consecutive_errors, q_pc, u_pc, u_data,
                   closes, n_handles, n_close, n_init>>

\* self.computer.Close(); self.computer = init_hardware_monitor(), which opens
\* a new handle or returns None; then the lock is released and the counter reset.
Reinit ==
    /\ p_pc = "reinit_locked"
    /\ closes' = close_handle(closes, computer)
    /\ n_close' = n_close + 1
    /\ n_init' = n_init + 1
    /\ \/ computer' = 0 /\ n_handles' = n_handles
       \/ /\ n_handles < MaxHandles
          /\ n_handles' = n_handles + 1
          /\ computer' = n_handles + 1
    /\ lock' = "free"
    /\ consecutive_errors' = 0
    /\ p_pc' = "wait"
    /\ UNCHANGED <<uivars, envvars, svars, stop_event, sensor_data, p_computer,
                   p_data, q_pc, u_pc, u_data>>

\* self._stop_event.wait(2) returns, on the timeout or on the event.
Wait ==
    /\ p_pc = "wait"
    /\ p_pc' = "loop"
    /\ UNCHANGED <<uivars, envvars, svars, lock, computer, stop_event,
                   sensor_data, p_computer, p_data, consecutive_errors, q_pc,
                   u_pc, u_data, closes, n_handles, n_close, n_init>>

\* ------------------------------------------- UI thread beside the sensor thread
\* quit() up to the lock: the flags, the cancelled callbacks, the saved config.
QuitStart ==
    /\ running /\ q_pc = "idle" /\ u_pc = "idle"
    /\ Becomes(quit_ui(St))
    /\ stop_event' = TRUE
    /\ q_pc' = "close"
    /\ UNCHANGED <<envvars, svars, lock, computer, sensor_data, p_pc,
                   p_computer, p_data, consecutive_errors, u_pc, u_data, closes,
                   n_handles, n_close, n_init>>

\* with self.lock:
QuitAcquire ==
    /\ q_pc = "close" /\ lock = "free"
    /\ lock' = "ui"
    /\ q_pc' = "close_locked"
    /\ UNCHANGED <<uivars, envvars, svars, computer, stop_event, sensor_data,
                   p_pc, p_computer, p_data, consecutive_errors, u_pc, u_data,
                   closes, n_handles, n_close, n_init>>

\* if self.computer is not None: Close(); self.computer = None
QuitClose ==
    /\ q_pc = "close_locked"
    /\ closes' = close_handle(closes, computer)
    /\ computer' = 0
    /\ lock' = "free"
    /\ q_pc' = "done"
    /\ UNCHANGED <<uivars, envvars, svars, stop_event, sensor_data, p_pc,
                   p_computer, p_data, consecutive_errors, u_pc, u_data,
                   n_handles, n_close, n_init>>

\* update_ui: with self.lock: data = copy.deepcopy(self.sensor_data)
UpdateAcquire ==
    /\ running /\ q_pc = "idle" /\ u_pc = "idle" /\ lock = "free"
    /\ lock' = "ui"
    /\ u_pc' = "copy_locked"
    /\ UNCHANGED <<uivars, envvars, svars, computer, stop_event, sensor_data,
                   p_pc, p_computer, p_data, consecutive_errors, q_pc, u_data,
                   closes, n_handles, n_close, n_init>>

\* A read that returns the last snapshot the sensor thread built, not the slot.
UpdateCopy_reads_local ==
    /\ u_pc = "copy_locked"
    /\ u_data' = p_data
    /\ lock' = "free"
    /\ u_pc' = "idle"
    /\ UNCHANGED <<uivars, envvars, svars, computer, stop_event, sensor_data,
                   p_pc, p_computer, p_data, consecutive_errors, q_pc, closes,
                   n_handles, n_close, n_init>>

UpdateCopy ==
    /\ u_pc = "copy_locked"
    /\ u_data' = sensor_data
    /\ lock' = "free"
    /\ u_pc' = "idle"
    /\ UNCHANGED <<uivars, envvars, svars, computer, stop_event, sensor_data,
                   p_pc, p_computer, p_data, consecutive_errors, q_pc, closes,
                   n_handles, n_close, n_init>>

\* ------------------------------------------------------ the store, by reference
\* data = read_sensors(computer): a new object graph, held by the local `data`.
StoreRead ==
    /\ \E hw \in HwReadings, os \in OsReadings :
         LET r == alloc_snapshot(heap, read_sensors(1, hw, os))
         IN  /\ Len(r.heap) <= MaxAddr
             /\ heap' = r.heap
             /\ p_ref' = r.ref
    /\ UNCHANGED <<uivars, envvars, pvars, slot, u_ref>>

\* with self.lock: self.sensor_data = data
StorePublish ==
    /\ p_ref # 0 /\ p_ref # slot
    /\ slot' = p_ref
    /\ UNCHANGED <<uivars, envvars, pvars, heap, p_ref, u_ref>>

\* with self.lock: self.sensor_data = {"error": str(e)}
StorePublishError ==
    /\ Len(heap) < MaxAddr
    /\ heap' = Append(heap, DictObj(ErrorData, 0))
    /\ slot' = Len(heap) + 1
    /\ UNCHANGED <<uivars, envvars, pvars, p_ref, u_ref>>

\* update_ui: with self.lock: data = copy.deepcopy(self.sensor_data)
StoreCopy ==
    /\ LET r == deepcopy(heap, slot)
       IN  /\ Len(r.heap) <= MaxAddr
           /\ heap' = r.heap
           /\ u_ref' = r.ref
    /\ UNCHANGED <<uivars, envvars, pvars, slot, p_ref>>

\* What the holder of the copy can do to it: data[key] = value,
StoreSetItem ==
    /\ u_ref # 0
    /\ heap' = [heap EXCEPT ![u_ref].scalars =
                   IF heap[u_ref].disks # 0 THEN [@ EXCEPT !.cpu_temp = Some(0)]
                   ELSE [error |-> "changed"]]
    /\ UNCHANGED <<uivars, envvars, pvars, slot, p_ref, u_ref>>

\* data["disks"].append(disk),
StoreAppendDisk ==
    /\ u_ref # 0 /\ heap[u_ref].disks # 0
    /\ Len(heap) < MaxAddr
    /\ heap' = Append([heap EXCEPT ![heap[u_ref].disks].items =
                                       Append(@, Len(heap) + 1)],
                      DiskObj(ExtraDisk))
    /\ UNCHANGED <<uivars, envvars, pvars, slot, p_ref, u_ref>>

\* data["disks"].clear(),
StoreClearDisks ==
    /\ u_ref # 0 /\ heap[u_ref].disks # 0
    /\ heap[heap[u_ref].disks].items # <<>>
    /\ heap' = [heap EXCEPT ![heap[u_ref].disks].items = <<>>]
    /\ UNCHANGED <<uivars, envvars, pvars, slot, p_ref, u_ref>>

\* data["disks"][0]["temp"] = value.
StoreSetDiskTemp ==
    /\ u_ref # 0 /\ heap[u_ref].disks # 0
    /\ heap[heap[u_ref].disks].items # <<>>
    /\ heap' = [heap EXCEPT ![heap[heap[u_ref].disks].items[1]].rec.temp = Some(0)]
    /\ UNCHANGED <<uivars, envvars, pvars, slot, p_ref, u_ref>>

\* ------------------------------------------------------------ initial states
\* The sensor thread's state when OverlayApp.__init__ ends; `opened` is whether
\* init_hardware_monitor opened the backend.
InitThreads(opened) ==
    /\ lock = "free"
    /\ computer = IF opened THEN 1 ELSE 0
    /\ n_handles = IF opened THEN 1 ELSE 0
    /\ stop_event = FALSE
    /\ sensor_data = <<>>
    /\ p_pc = "loop"
    /\ p_computer = 0
    /\ p_data = <<>>
    /\ consecutive_errors = 0
    /\ q_pc = "idle"
    /\ u_pc = "idle"
    /\ u_data = <<>>
    /\ closes = [h \in 1..MaxHandles |-> 0]
    /\ n_close = 0
    /\ n_init = 0

\* No load_config or save_config call is in progress and none is made.
InitConfigIdle ==
    /\ config_file = NoFile
    /\ saved_cfg = NoCfg
    /\ loaded_cfg = NoCfg

InitStoreIdle ==
    /\ InitConfigIdle
    /\ heap = <<>>
    /\ slot = 0
    /\ p_ref = 0
    /\ u_ref = 0

Init ==
    /\ \E pe \in BOOLEAN : InitUI(WideScreen, StartPos, pe)
    /\ InitThreads(TRUE)
    /\ InitStoreIdle

Next ==
    \/ TriggerEnter
    \/ FireEmbed
    \/ FirePoll
    \/ FireAnim
    \/ FireMouse
    \/ FireUpdate
    \/ TogglePeek
    \/ ToggleTopmost
    \/ OnDrag
    \/ EndDrag
    \/ Quit

Spec == Init /\ [][Next]_vars

InitGeom ==
    /\ \E s \in Screens, p \in InitPositions, pe \in BOOLEAN : InitUI(s, p, pe)
    /\ InitThreads(TRUE)
    /\ InitStoreIdle

NextGeom ==
    \/ ScreenChange
    \/ FirePoll
    \/ FireEmbed
    \/ TogglePeek
    \/ ToggleTopmost
    \/ OnDrag
    \/ EndDrag
    \/ Quit

SpecGeom == InitGeom /\ [][NextGeom]_vars

\* One startup of the UI, and both outcomes of opening the backend.
InitPoller ==
    /\ InitUI(WideScreen, <<DefaultX, DefaultY>>, TRUE)
    /\ \E opened \in BOOLEAN : InitThreads(opened)
    /\ InitStoreIdle

NextPoller ==
    \/ LoopTest
    \/ GetAcquire
    \/ GetRelease
    \/ ReadStart
    \/ ReadReturn
    \/ ReadRaise
    \/ PutAcquire
    \/ PutRelease
    \/ ErrAcquire
    \/ ErrRelease
    \/ ReinitAcquire
    \/ Reinit
    \/ Wait
    \/ QuitStart
    \/ QuitAcquire
    \/ QuitClose
    \/ UpdateAcquire
    \/ UpdateCopy

SpecPoller == InitPoller /\ [][NextPoller]_vars

\* The steps of the sensor thread.
SensorThread ==
    \/ LoopTest
    \/ GetAcquire
    \/ GetRelease
    \/ ReadStart
    \/ ReadReturn
    \/ ReadRaise
    \/ PutAcquire
    \/ PutRelease
    \/ ErrAcquire
    \/ ErrRelease
    \/ ReinitAcquire
    \/ Reinit
    \/ Wait

\* Scheduling: the sensor thread runs whenever it can (a read in progress
\* returns or raises, a wait ends), and quit() leaves its locked section.
SpecPollerLive ==
    /\ InitPoller /\ [][NextPoller]_vars
    /\ WF_vars(SensorThread)
    /\ WF_vars(QuitClose)

InitStore ==
    /\ InitUI(WideScreen, <<DefaultX, DefaultY>>, TRUE)
    /\ InitThreads(TRUE)
    /\ InitConfigIdle
    /\ heap = <<EmptyDict>>
    /\ slot = 1
    /\ p_ref = 0
    /\ u_ref = 0

NextStore ==
    \/ StoreRead
    \/ StorePublish
    \/ StorePublishError
    \/ StoreCopy
    \/ StoreSetItem
    \/ StoreAppendDisk
    \/ StoreClearDisks
    \/ StoreSetDiskTemp

SpecStore == InitStore /\ [][NextStore]_vars

\* The peek cycle with a pointer that leaves the widget and the strip at some
\* point and then rests: from then on no <Enter> reaches the strip and every
\* GetCursorPos gives the resting point.  Always-on-top stays off and quit() is
\* not called.
Away(m) ==
    /\ ~(/\ win.x <= m[1] /\ m[1] <= win.x + OverlayW
         /\ win.y <= m[2] /\ m[2] <= win.y + OverlayH)
    /\ ~(/\ trig.x <= m[1] /\ m[1] < trig.x + trig.w
         /\ trig.y <= m[2] /\ m[2] < trig.y + trig.h)

\* Points no position of the widget covers: below it, and left of and above it.
RestPoints == {<<92, 55>>, <<10, 10>>}

PointerLeaves ==
    /\ pointer = NoMouse
    /\ \E m \in RestPoints : Away(m) /\ pointer' = m
    /\ UNCHANGED <<uivars, pvars, svars, screen, config_file, saved_cfg,
                   loaded_cfg, instvars>>

TriggerEnterLive == pointer = NoMouse /\ TriggerEnter

FireAnimLive ==
    \E t \in BagToSet(timers), m \in MousePoints :
        (pointer # NoMouse => m = pointer) /\ FireAnimAt(t, m)

FireMouseLive ==
    \E t \in BagToSet(timers), m \in MousePoints :
        (pointer # NoMouse => m = pointer) /\ FireMouseAt(t, m)

NextLive ==
    \/ TriggerEnterLive
    \/ PointerLeaves
    \/ FireEmbed
    \/ FirePoll
    \/ FireAnimLive
    \/ FireMouseLive
    \/ FireUpdate
    \/ TogglePeek
    \/ OnDrag
    \/ EndDrag

\* Scheduling: the Tk event loop runs every pending after() callback.
SpecLive ==
    /\ Init /\ [][NextLive]_vars
    /\ WF_vars(FireAnimLive)
    /\ WF_vars(FireMouseLive)
    /\ WF_vars(FireEmbed)

\* OverlayApp's construction on every start screen and start position, and the
\* callbacks and menu toggles that follow it.
InitStartup ==
    /\ \E s \in StartScreens, p \in StartPositions, pe \in BOOLEAN :
          InitUI(s, p, pe)
    /\ InitThreads(TRUE)
    /\ InitStoreIdle

NextStartup ==
    \/ FireEmbed
    \/ FirePoll
    \/ FireUpdate
    \/ TogglePeek
    \/ ToggleTopmost
    \/ ToggleAlerts

SpecStartup == InitStartup /\ [][NextStartup]_vars

\* setup.py: the loop of download_and_extract, one package per step, and the
\* return that follows the last package.
ExtractPackage ==
    /\ exit_code = Running /\ setup_pc \in DOMAIN PACKAGES
    /\ \E dl \in Downloads(setup_pc) :
          LET r == extract_package(setup_pc, lib_dir, dl)
          IN  /\ lib_dir' = r.lib
              /\ exit_code' = r.exit
              /\ verified' = r.checks
              /\ package' = dl
    /\ setup_pc' = setup_pc + 1
    /\ UNCHANGED <<uivars, pvars, svars, screen, config_file, saved_cfg,
                   loaded_cfg, pointer>>

SetupComplete ==
    /\ exit_code = Running /\ setup_pc = Len(PACKAGES) + 1
    /\ exit_code' = 0
    /\ UNCHANGED <<uivars, pvars, svars, screen, config_file, saved_cfg,
                   loaded_cfg, pointer, lib_dir, setup_pc, verified, package>>

InitInstaller ==
    /\ InitUI(WideScreen, <<DefaultX, DefaultY>>, TRUE)
    /\ InitThreads(TRUE)
    /\ InitStoreIdle

NextInstaller ==
    \/ ExtractPackage
    \/ SetupComplete

SpecInstaller == InitInstaller /\ [][NextInstaller]_vars

\* load_config and save_config on the files they can meet.
LoadConfig ==
    /\ loaded_cfg' = load_config(config_file)
    /\ UNCHANGED <<uivars, pvars, svars, screen, config_file, saved_cfg,
                   pointer, instvars>>

SaveConfig ==
    /\ \E cfg \in ValidConfigs :
          /\ config_file' = save_config(cfg)
          /\ saved_cfg' = cfg
    /\ UNCHANGED <<uivars, pvars, svars, screen, loaded_cfg, pointer,
                   instvars>>

InitConfig ==
    /\ InitUI(WideScreen, <<DefaultX, DefaultY>>, TRUE)
    /\ InitThreads(TRUE)
    /\ heap = <<>> /\ slot = 0 /\ p_ref = 0 /\ u_ref = 0
    /\ config_file \in ConfigFiles
    /\ saved_cfg = NoCfg
    /\ loaded_cfg = NoCfg

NextConfig ==
    \/ LoadConfig
    \/ SaveConfig

SpecConfig == InitConfig /\ [][NextConfig]_vars

\* The refresh loop beside the sensor thread: the ticks of update_ui read what
\* sensor_loop publishes.
InitRefresh ==
    /\ InitUI(WideScreen, <<DefaultX, DefaultY>>, TRUE)
    /\ \E opened \in BOOLEAN : InitThreads(opened)
    /\ InitStoreIdle

NextRefresh ==
    \/ FireUpdate
    \/ FireEmbed
    \/ ToggleAlerts
    \/ Quit
    \/ LoopTest
    \/ GetAcquire
    \/ GetRelease
    \/ ReadStart
    \/ ReadReturn
    \/ ReadRaise
    \/ PutAcquire
    \/ PutRelease
    \/ ErrAcquire
    \/ ErrRelease
    \/ ReinitAcquire
    \/ Reinit
    \/ Wait

SpecRefresh == InitRefresh /\ [][NextRefresh]_vars

\* ===================================================================== claims
Docked == ~peek_visible /\ ~peek_animating
InPeek == peek_visible \/ peek_animating
Abs(i) == IF i < 0 THEN -i ELSE i
CeilDiv(a, b) == (a + b - 1) \div b
Pending(kind) == { t \in BagToSet(timers) : t.kind = kind }

\* C1 (as stated): a pointer entering the trigger strip while the hit test
\* finds the desktop not visible leaves the controller Docked: _peek_animating
\* stays False, _saved_pos stays None and the window is not unembedded.
C1_StaysDockedWhenCovered ==
    [][(Len(hits') = 1 /\ ~is_desktop_visible(hits'[1]))
          => (~peek_animating' /\ saved_pos' = NoPos /\ embedded' = embedded)]_vars

\* C1 (amended): a pointer entering the trigger strip starts a slide-in only
\* when the hit test finds the desktop NOT visible (an application window
\* covers the widget's place); whenever it finds the desktop visible the
\* controller stays Docked: _peek_animating stays False, _saved_pos stays None
\* and the window is not unembedded.
C1_SlideInOnlyWhenCovered ==
    [][/\ (Len(hits') = 1 /\ is_desktop_visible(hits'[1]))
            => (~peek_animating' /\ ~peek_visible' /\ saved_pos' = saved_pos
                /\ saved_pos' = NoPos /\ embedded' = embedded)
       /\ (Docked /\ peek_animating')
            => (Len(hits') = 1 /\ ~is_desktop_visible(hits'[1]))]_vars

\* The pointer entered the strip over a visible desktop and nothing started.
C1_Witness ==
    /\ Len(hits) = 1 /\ is_desktop_visible(hits[1])
    /\ Docked /\ saved_pos = NoPos /\ ~topmost /\ embedded

\* C2: always-on-top mode excludes every peek sub-state.
C2_TopmostExcludesPeek == topmost => (~peek_visible /\ ~peek_animating)

\* always-on-top was switched on during a slide whose next tick is still pending
C2_Witness == topmost /\ Pending("anim") # {}

\* C4: the window mode is exclusive: embedded implies not always-on-top and no
\* peek in progress.
C4_EmbeddedExclusive ==
    embedded => (~topmost /\ ~peek_visible /\ ~peek_animating)

\* C7: every call of _animate_slide that passes the cancellation test is within
\* ceil(|start - target| / 20) + 1 calls of its slide, never places the window
\* past the target, and the completing call places it exactly on the target and
\* runs the completion callback once; a slide that is still pending has made
\* at most ceil(|start - target| / 20) calls.
C7_SlideTerminates ==
    /\ \A i \in 1..Len(ticks) :
         LET t == ticks[i]
             k == CeilDiv(Abs(t.start - t.target), 20)
         IN  /\ t.n <= k + 1
             /\ t.step < 0 => t.placed >= t.target
             /\ t.step > 0 => t.placed <= t.target
             /\ t.done => t.placed = t.target
             /\ ~t.done => t.n <= k
             /\ \A j \in 1..Len(ticks) :
                  (i # j /\ t.done /\ ticks[j].done) => ticks[j].step # t.step
    /\ \A t \in Pending("anim") :
         t.n <= CeilDiv(Abs(t.start - t.target), 20)
    /\ (Len(ticks) > 0 /\ ticks[Len(ticks)].done)
         => IF ticks[Len(ticks)].step < 0
            THEN peek_visible /\ ~peek_animating /\ win.x = ticks[Len(ticks)].target
            ELSE Docked /\ Pending("embed") # {}

\* a slide-in of four calls has ended by snapping from an overshoot
C7_Witness ==
    /\ Len(ticks) = 1 /\ ticks[1].done /\ ticks[1].step < 0
    /\ ticks[1].n = CeilDiv(Abs(ticks[1].start - ticks[1].target), 20) + 1
    /\ ticks[1].n >= 3
    /\ ticks[1].start + (ticks[1].n - 1) * ticks[1].step < ticks[1].target
    /\ win.x = ticks[1].target

\* C8: turning always-on-top on during a peek ends the peek at once and puts
\* the window back on the remembered position, and afterwards no pending tick
\* or mouse poll of the cancelled cycle moves the window or changes the peek
\* state.
C8_CancelAtOnce ==
    [][(ToggleTopmost /\ ~topmost /\ InPeek)
          => /\ ~peek_visible' /\ ~peek_animating' /\ topmost'
             /\ saved_pos' = NoPos
             /\ saved_pos # NoPos
             /\ win'.x = saved_pos[1] /\ win'.y = saved_pos[2]]_vars

C8_CancelIsFinal ==
    [][/\ (ToggleTopmost /\ ~topmost /\ InPeek)
            => /\ ~peek_visible' /\ ~peek_animating' /\ topmost'
               /\ saved_pos' = NoPos
               /\ saved_pos # NoPos
               /\ win'.x = saved_pos[1] /\ win'.y = saved_pos[2]
       /\ \A t \in BagToSet(timers) :
            (t.stale /\ (FireAnimOf(t) \/ FireMouseOf(t)))
               => /\ win'.x = win.x /\ win'.y = win.y
                  /\ peek_visible' = peek_visible
                  /\ peek_animating' = peek_animating]_vars

\* C3: with a backend handle, the close and the reopen happen at the third
\* consecutive failure and at no other: in one step, under the lock held by the
\* sensor thread, with one Close and one init_hardware_monitor call; the handle
\* the thread was reading is closed exactly once, and the counter is 0 after
\* the step whether the reopen returned a handle or None.  After a first or
\* second failure the thread goes to its wait without closing or reopening.
C3_ReinitAtThirdFailure ==
    [][/\ (n_close' # n_close \/ n_init' # n_init)
            => /\ lock = "poller" /\ p_pc = "reinit_locked"
               /\ consecutive_errors = 3
               /\ p_computer # 0
               /\ n_close' = n_close + 1 /\ n_init' = n_init + 1
               /\ closes'[p_computer] = 1
               /\ consecutive_errors' = 0
               /\ lock' = "free"
       /\ (p_pc = "err_locked" /\ p_pc' # p_pc /\ p_computer # 0)
            => /\ consecutive_errors \in 1..3
               /\ consecutive_errors = 3 => p_pc' = "reinit"
               /\ consecutive_errors < 3
                    => (p_pc' = "wait" /\ closes' = closes /\ computer' = computer)
       /\ (p_pc = "reinit" /\ p_pc' # p_pc)
            => (p_pc' = "reinit_locked" /\ lock' = "poller")]_vars

\* the third failure closed handle 1 and the reopen returned None
C3_Witness ==
    /\ n_init = 1 /\ n_close = 1 /\ closes[1] = 1 /\ computer = 0
    /\ q_pc = "idle" /\ consecutive_errors = 0 /\ p_pc = "wait"

\* C5: read_sensors never runs on a handle that has been closed, nor while it
\* is being closed.
C5_ReadExcludesClose ==
    (p_pc = "reading" /\ p_computer # 0)
        => (closes[p_computer] = 0 /\ q_pc # "close_locked")

\* C9: a poll that observes changed bounds with the stored position outside
\* them resets the stored position to (50, 50).
C9_PollResetsPosition ==
    [][(/\ FirePoll
        /\ screen # last_screen
        /\ \/ config.x < screen.x \/ config.x >= screen.x + screen.w
           \/ config.y < screen.y \/ config.y >= screen.y + screen.h)
          => (config'.x = 50 /\ config'.y = 50)]_vars

\* C10: a poll that observes changed bounds leaves the trigger strip 6 wide,
\* as high as the virtual screen, at x = virt_x + virt_w - 6 and y = virt_y,
\* and records the bounds; a poll that observes unchanged bounds leaves both as
\* they were; every poll leaves exactly one next poll pending.
C10_PollPlacesTrigger ==
    [][FirePoll
          => /\ IF screen # last_screen
                THEN /\ trig'.w = 6 /\ trig'.h = screen.h
                     /\ trig'.x = screen.x + screen.w - 6
                     /\ trig'.y = screen.y
                     /\ trig'.shown = trig.shown
                     /\ last_screen' = screen
                ELSE trig' = trig /\ last_screen' = last_screen
             /\ CopiesIn(Cb("poll"), timers') = 1]_vars

\* the widget started at x = 70 on the wide screen; the poll after the screen
\* shrank to 60 moved the strip to the new right edge
C10_Witness ==
    /\ config.x = 70 /\ last_screen.w = 60 /\ screen.w = 60
    /\ trig.x = 54 /\ trig.w = 6 /\ trig.h = 60
    /\ CopiesIn(Cb("poll"), timers) = 1 /\ running

\* C6: the copy update_ui takes equals the stored value and shares no object
\* with it, and the stored value changes only when the slot is rebound by a
\* publish: no write to a copy (its items, its disks list, its disk records)
\* changes the stored value, so a later read returns the published value.
C6_CopyIsolation ==
    [][/\ StoreCopy
            => /\ Value(heap', u_ref') = Value(heap, slot)
               /\ u_ref' # slot
       /\ u_ref' # 0 => Reach(heap', u_ref') \cap Reach(heap', slot') = {}
       /\ slot' = slot => Value(heap', slot') = Value(heap, slot)
       /\ slot' # slot => (StorePublish \/ StorePublishError)]_vars

\* the copy's disks list was cleared and the stored snapshot still has its disk
C6_Witness ==
    /\ u_ref # 0 /\ heap[slot].disks # 0 /\ heap[u_ref].disks # 0
    /\ Len(Value(heap, slot).disks) = 1
    /\ Value(heap, u_ref).disks = <<>>
    /\ Value(heap, slot).cpu_temp = Some(40)
    /\ Value(heap, u_ref).cpu_temp = Some(0)

\* C11: once the handle is None because the open failed at startup or because
\* a reinitialization returned None, sensor_loop makes no Close and no
\* init_hardware_monitor call however many reads fail in a row, and the handle
\* stays None.
NoneForGood ==
    /\ computer = 0
    /\ p_computer = 0 \/ p_pc \in {"wait", "loop", "get", "get_locked", "done"}

C11_NoReinitWithoutHandle ==
    [][/\ (computer = 0 /\ q_pc # "done") => NoneForGood
       /\ (computer' = 0 /\ q_pc' # "done") => NoneForGood'
       /\ NoneForGood
            => /\ NoneForGood'
               /\ n_close' = n_close /\ n_init' = n_init
               /\ closes' = closes
               /\ p_pc' \notin {"reinit", "reinit_locked"}]_vars

\* a reinitialization returned None and three more reads have failed since
C11_Witness ==
    /\ n_init = 1 /\ computer = 0 /\ p_computer = 0 /\ q_pc = "idle"
    /\ consecutive_errors >= 3 /\ p_pc = "wait"

\* C12: with computer = None, the snapshot read_sensors returns, and the one
\* the sensor thread then publishes, has cpu_load and ram_pct populated, the
\* eight hardware fields None and an empty disks list.
OsOnly(d) ==
    /\ DOMAIN d = DOMAIN BlankData
    /\ d.cpu_load # None /\ d.ram_pct # None
    /\ \A k \in {"cpu_temp", "gpu_temp", "gpu_load", "cpu_fan", "cpu_fan_pct",
                 "gpu_fan", "gpu_fan_pct", "gpu_vram_pct"} : d[k] = None
    /\ d.disks = <<>>

C12_NoHandleSnapshot ==
    [][/\ (p_pc = "reading" /\ p_pc' = "put" /\ p_computer = 0)
            => OsOnly(p_data')
       /\ (p_pc = "put_locked" /\ p_pc' = "wait" /\ p_computer = 0)
            => (OsOnly(sensor_data') /\ sensor_data' = p_data)]_vars

\* the open failed at startup and the first cycle has published its snapshot
C12_Witness ==
    /\ n_handles = 0 /\ computer = 0 /\ p_computer = 0 /\ p_pc = "wait"
    /\ consecutive_errors = 0
    /\ DOMAIN sensor_data = DOMAIN BlankData
    /\ sensor_data.cpu_load = Some(5) /\ sensor_data.ram_pct = Some(40)
    /\ sensor_data.cpu_temp = None /\ sensor_data.disks = <<>>

\* C13: quit() leaves no after() callback pending (update_ui, slide ticks,
\* mouse polls, screen polls, embed attempts), and after it no step changes the
\* windows, the peek state, the stored position or the callback queue.
C13_QuitCancelsCallbacks ==
    [][/\ ~running' => (timers' = EmptyBag /\ ~trig'.shown)
       /\ ~running
            => /\ win' = win /\ trig' = trig
               /\ peek_visible' = peek_visible
               /\ peek_animating' = peek_animating
               /\ embedded' = embedded /\ topmost' = topmost
               /\ config' = config /\ saved_pos' = saved_pos
               /\ timers' = timers /\ ~running']_vars

\* quit() ran in the middle of a slide-in, whose next tick was pending
C13_Witness ==
    /\ ~running /\ peek_animating /\ ~peek_visible /\ saved_pos # NoPos
    /\ win.x = 80 /\ timers = EmptyBag

\* C14: once quit() has set the stop event the sensor thread terminates, and it
\* starts no iteration after the one in progress: the loop test that follows
\* the wait leaves the loop.
C14_StopEndsLoop ==
    /\ stop_event ~> (p_pc = "done")
    /\ [][(stop_event /\ p_pc = "loop" /\ p_pc' # p_pc) => p_pc' = "done"]_vars
    /\ [][(stop_event /\ p_pc = "wait" /\ p_pc' # p_pc) => p_pc' = "loop"]_vars

\* quit() came while a read was failing; the thread published the error and ended
C14_Witness ==
    /\ stop_event /\ p_pc = "done" /\ q_pc = "done"
    /\ consecutive_errors = 1 /\ sensor_data = ErrorData /\ closes[1] = 1

\* C15 (as stated): while a peek is in progress neither on_drag nor end_drag
\* changes config x/y.
C15_DragInPeekKeepsConfig ==
    [][(InPeek /\ (OnDrag \/ EndDrag)) => config' = config]_vars

\* C15 (amended): while a peek is in progress on_drag writes the new position
\* to _saved_pos only and leaves config x/y unchanged; end_drag during the peek
\* copies _saved_pos into config x/y; while docked on_drag writes config x/y
\* directly.  Whenever config x/y change they become the remembered position
\* if there is one, and else the position of the docked window: never a
\* position of the slide.
C15_DragInPeekGoesToSavedPos ==
    [][/\ (InPeek /\ OnDrag)
            => /\ config' = config
               /\ saved_pos' \in DragPositions
               /\ <<win'.x, win'.y>> = saved_pos'
       /\ (saved_pos # NoPos /\ EndDrag)
            => /\ config'.x = saved_pos[1] /\ config'.y = saved_pos[2]
               /\ saved_pos' = saved_pos
       /\ (Docked /\ OnDrag)
            => /\ saved_pos' = saved_pos
               /\ <<config'.x, config'.y>> = <<win'.x, win'.y>>
       /\ config' # config
            => IF saved_pos # NoPos
               THEN <<config'.x, config'.y>> = saved_pos
               ELSE Docked /\ <<config'.x, config'.y>> = <<win'.x, win'.y>>]_vars

\* Revealed, dragged to (30, 30), and the release has put (30, 30) in config
C15_Witness ==
    /\ peek_visible /\ ~peek_animating /\ ~topmost
    /\ saved_pos = <<30, 30>> /\ win.x = 30 /\ win.y = 30
    /\ config.x = 30 /\ config.y = 30

\* C16: while the application runs, the trigger strip is shown exactly when
\* the peek feature is enabled and always-on-top is off.
C16_TriggerShownIff ==
    running => (trig.shown <=> (peek_enabled /\ ~topmost))

\* the feature was switched on while always-on-top was active: strip hidden
C16_Witness ==
    /\ running /\ topmost /\ peek_enabled /\ ~trig.shown
    /\ Pending("embed") = {} /\ win.shown

\* C17: toggle_peek switching the feature off in Revealed starts the slide-out
\* in the same call: afterwards peek_visible and _peek_animating are both True,
\* the first slide-out call has been made and its next tick is pending.
C17_PeekOffStartsSlideOut ==
    [][(TogglePeek /\ peek_enabled /\ peek_visible /\ ~peek_animating)
          => /\ ~peek_enabled' /\ ~trig'.shown
             /\ peek_visible' /\ peek_animating'
             /\ Len(ticks') = 1 /\ ticks'[1].step = 20 /\ ~ticks'[1].done
             /\ ticks'[1].start = win.x /\ ticks'[1].target = screen.x + screen.w
             /\ \E t \in BagToSet(timers') :
                  /\ t.kind = "anim" /\ t.step = 20 /\ t.cb = "peek_hidden"
                  /\ t.cur = win.x + 20 /\ ~t.stale]_vars

\* the slide-out has started while the mouse poll of Revealed is still pending
C17_Witness ==
    /\ ~peek_enabled /\ peek_visible /\ peek_animating /\ ~trig.shown
    /\ Len(ticks) = 1 /\ ticks[1].step = 20 /\ ticks[1].n = 1
    /\ Pending("mouse") # {}

\* C18: in Revealed, whatever position the cursor is read at, the pending
\* _peek_check_mouse poll keeps the controller in Revealed and reschedules
\* itself exactly when the position is over the widget's rectangle or within
\* the trigger strip (6 wide at the right edge of the virtual screen), and
\* starts the slide-out for every other position.
OverWidget(m) ==
    /\ win.x <= m[1] /\ m[1] <= win.x + OverlayW
    /\ win.y <= m[2] /\ m[2] <= win.y + OverlayH

InStrip(m) ==
    /\ trig.x <= m[1] /\ m[1] < trig.x + trig.w
    /\ trig.y <= m[2] /\ m[2] < trig.y + trig.h

C18_RevealedWhilePointerOver ==
    (peek_visible /\ ~peek_animating)
        => \A t \in Pending("mouse"), m \in MousePoints :
             LET r == peek_check_mouse(Fired(t), m)
             IN  IF OverWidget(m) \/ InStrip(m)
                 THEN /\ r.peek_visible /\ ~r.peek_animating
                      /\ \E c \in BagToSet(r.timers) :
                           /\ c.kind = "mouse"
                           /\ r.timers = Fired(t).timers (+) SetToBag({c})
                 ELSE r.peek_visible /\ r.peek_animating

\* C19: the handler in which a slide-out completes leaves the controller
\* Docked: both peek flags False, the window no longer topmost, the window and
\* config x/y at the remembered position, _saved_pos None, and one more
\* _embed_into_desktop callback pending than before.
C19_SlideOutEndsDocked ==
    [][(/\ Len(ticks') > 0
        /\ ticks'[Len(ticks')].done
        /\ ticks'[Len(ticks')].step > 0)
          => /\ ~peek_visible' /\ ~peek_animating'
             /\ ~win'.top /\ ~topmost'
             /\ saved_pos # NoPos
             /\ <<win'.x, win'.y>> = saved_pos
             /\ <<config'.x, config'.y>> = saved_pos
             /\ saved_pos' = NoPos
             /\ CopiesIn(Cb("embed"), timers')
                  = CopiesIn(Cb("embed"), timers) + 1]_vars

\* a slide-out from Revealed has completed and put the widget back at (70, 20)
C19_Witness ==
    /\ Len(ticks) = 1 /\ ticks[1].done /\ ticks[1].step = 20
    /\ ticks[1].start = 50 /\ ticks[1].target = 100
    /\ Docked /\ saved_pos = NoPos /\ ~win.top
    /\ win.x = 70 /\ win.y = 20 /\ config.x = 70 /\ config.y = 20
    /\ CopiesIn(Cb("embed"), timers) = 1

\* C20: one _embed_into_desktop attempt is pending after startup; the number
\* of pending attempts grows only by one at a time and only in a handler that
\* switches always-on-top off or completes a slide-out (redock), each of which
\* adds one; an attempt schedules no further attempt and shows the window,
\* and one that leaves embedded False has sent the window to the bottom of
\* the z-order.
Embeds(b) == CopiesIn(Cb("embed"), b)

C20_OneEmbedAttempt ==
    /\ Embeds(timers) = 1
    /\ [][/\ FireEmbed
               => /\ Embeds(timers') = Embeds(timers) - 1
                  /\ win'.shown
                  /\ \/ embedded' /\ win'.bottom = win.bottom
                     \/ embedded' = embedded /\ win'.bottom
                  /\ ~embedded' => (win'.bottom /\ ~embedded)
          /\ Embeds(timers') > Embeds(timers)
               => /\ Embeds(timers') = Embeds(timers) + 1
                  /\ \/ topmost /\ ~topmost'
                     \/ InPeek /\ ~peek_visible' /\ ~peek_animating' /\ ~topmost'
          /\ (topmost /\ ~topmost')
               => Embeds(timers') = Embeds(timers) + 1
          /\ (Len(ticks') > 0 /\ ticks'[Len(ticks')].done
                              /\ ticks'[Len(ticks')].step > 0)
               => Embeds(timers') = Embeds(timers) + 1]_vars

\* the attempt after a redock found no desktop surface: floating at the bottom
C20_Witness ==
    /\ ~embedded /\ win.bottom /\ win.shown /\ ~win.top
    /\ Docked /\ ~topmost /\ running /\ Embeds(timers) = 0
    /\ hits = <<>> /\ ticks = <<>>

\* C21: the sensor thread makes no backend read, no Close and no
\* init_hardware_monitor call while it holds the lock.
C21_NoBackendCallUnderLock ==
    [][/\ p_pc = "reading" => lock # "poller"
       /\ (n_close' # n_close \/ n_init' # n_init) => lock # "poller"]_vars

\* C22: a read returns the value the slot holds when it is made and leaves the
\* slot alone, and the slot changes only by a publish of the sensor thread
\* (the new snapshot, or the error marker), made under the lock: so a read
\* returns the most recent publish and never an earlier one.
C22_ReadReturnsLatestPublish ==
    [][/\ (UpdateCopy \/ u_data' # u_data)
            => /\ lock = "ui" /\ u_pc = "copy_locked"
               /\ u_data' = sensor_data
               /\ sensor_data' = sensor_data
       /\ sensor_data' # sensor_data
            => /\ lock = "poller"
               /\ \/ p_pc = "put_locked" /\ sensor_data' = p_data
                  \/ p_pc = "err_locked" /\ sensor_data' = ErrorData]_vars

\* three error markers, a reopen, then a snapshot were published; the read
\* made after that has returned the snapshot
C22_Witness ==
    /\ n_init = 1 /\ computer = 2
    /\ sensor_data # <<>> /\ sensor_data # ErrorData
    /\ u_data = sensor_data /\ u_pc = "idle"

\* C23: a tick of update_ui that reads an error snapshot leaves the labels,
\* the disk rows, both fan calibration ceilings and the alert timestamp as they
\* were and puts back the one callback it consumed; every tick made while
\* running is True leaves exactly one update_ui callback pending, and at no
\* time is more than one pending.
C23_ErrorTickRendersNothing ==
    /\ [](CopiesIn(Cb("update"), timers) <= 1)
    /\ [][FireUpdate /\ running =>
            /\ CopiesIn(Cb("update"), timers') = 1
            /\ timers' = timers
            /\ (sensor_data # <<>> /\ "error" \in DOMAIN sensor_data) =>
                   UNCHANGED <<rows, last_disk_names, GPU_FAN_MAX_RPM,
                               CPU_FAN_MAX_RPM, last_alert_time>>]_vars

\* a tick has read the error marker after an earlier tick rendered a snapshot
\* and raised an alert, and its successor is pending
C23_Witness ==
    /\ running /\ u_data = ErrorData
    /\ rows # NewRows /\ last_alert_time # 0
    /\ CPU_FAN_MAX_RPM # DefaultCpuFanMax
    /\ CopiesIn(Cb("update"), timers) = 1

\* What the configuration file's format calls a well-formed member: integer x
\* and y, boolean flags, positive integer fan ceilings.
WellFormed(key, tok) ==
    CASE key \in {"x", "y"} -> tok.lex = "int"
      [] key \in {"peek_enabled", "alerts_enabled"} -> tok.lex \in {"true", "false"}
      [] OTHER -> tok.lex = "int" /\ tok.n > 0

OneBadMember(f) ==
    /\ f.kind = "json" /\ f.doc.lex = "object"
    /\ Cardinality({k \in Keys : ~WellFormed(k, f.doc.members[k])}) = 1

\* C24: load_config on a JSON object with exactly one missing or malformed
\* member returns the default for that member and the file's value for every
\* other member.
C24_PerFieldFallback ==
    [][(LoadConfig /\ OneBadMember(config_file)) =>
          \A k \in Keys :
              loaded_cfg'[k] =
                  IF WellFormed(k, config_file.doc.members[k])
                  THEN loads(config_file.doc.members[k])
                  ELSE defaults[k]]_vars

\* C25: load_config after save_config of a config with valid fields returns
\* the saved config, field for field.
C25_RoundTrip ==
    [][(LoadConfig /\ saved_cfg # NoCfg /\ config_file = save_config(saved_cfg))
          => \A k \in Keys : loaded_cfg'[k] = saved_cfg[k]]_vars

\* a config that differs from the defaults in every kind of field was saved and
\* then loaded
C25_Witness ==
    /\ saved_cfg # NoCfg /\ loaded_cfg # NoCfg
    /\ config_file = save_config(saved_cfg)
    /\ loaded_cfg = saved_cfg
    /\ saved_cfg.x = PyInt(-5) /\ saved_cfg.peek_enabled = PyBool(FALSE)
    /\ saved_cfg.gpu_fan_max_rpm = PyInt(1)

\* C26: the counter is the number of failed reads since the last successful
\* one (a failure adds one, a success and a reinitialization reset it, nothing
\* else changes it), the sensor thread closes or reopens the backend only with
\* the counter at three or more, and an iteration ends with the error marker
\* stored if its read failed and with its new snapshot stored if it succeeded.
C26_CountsConsecutiveFailures ==
    [][/\ ReadRaise => consecutive_errors' = consecutive_errors + 1
       /\ PutRelease => consecutive_errors' = 0
       /\ consecutive_errors' # consecutive_errors
             => (ReadRaise \/ PutRelease \/ Reinit)
       /\ (n_close' # n_close \/ n_init' # n_init)
             => consecutive_errors >= ReinitAfter
       /\ (p_pc' = "wait" /\ p_pc \in {"err_locked", "reinit_locked"})
             => sensor_data' = ErrorData
       /\ (p_pc' = "wait" /\ p_pc = "put_locked")
             => sensor_data' = p_data /\ p_data # ErrorData
       /\ (p_pc' = "wait" /\ p_pc # "wait")
             => p_pc \in {"err_locked", "reinit_locked", "put_locked"}]_vars

\* two failures in a row after an earlier successful read, with the handle
\* open and the backend never closed or reopened
C26_Witness ==
    /\ consecutive_errors = 2 /\ p_pc = "wait"
    /\ sensor_data = ErrorData /\ p_data # <<>>
    /\ p_computer = 1 /\ computer = 1
    /\ n_close = 0 /\ n_init = 0 /\ closes[1] = 0

\* C27: after quit() has closed the backend and set self.computer to None the
\* sensor thread makes no init_hardware_monitor call, and self.computer is None
\* when the sensor thread has ended.
C27_NoReopenAfterQuit ==
    /\ [][q_pc = "done" => n_init' = n_init]_vars
    /\ []((q_pc = "done" /\ p_pc = "done") => computer = 0)

\* The number of pending _animate_slide ticks.
SlideTicks ==
    BagCardinality([t \in {c \in BagToSet(timers) : c.kind = "anim"}
                       |-> CopiesIn(t, timers)])

\* C28: at most one _animate_slide tick is pending at any time, and once a
\* new peek cycle has started no tick or poll of a cancelled cycle moves the
\* window, changes the peek flags or runs a completion callback.
C28_OneSlideChain ==
    /\ [](SlideTicks <= 1)
    /\ [][\A t \in BagToSet(timers) :
            (t.stale /\ InPeek /\ (FireAnimOf(t) \/ FireMouseOf(t)))
               => /\ win' = win
                  /\ peek_visible' = peek_visible
                  /\ peek_animating' = peek_animating
                  /\ \A i \in DOMAIN ticks' : ~ticks'[i].done]_vars

\* C29: once the pointer stays outside the widget and the trigger strip, a peek
\* in any of its phases ends: the controller is Docked again and the re-embed
\* attempt has run (the window is shown again, embedded or at the bottom of the
\* z-order); and a peek in progress always has a slide tick or a mouse poll
\* pending.
C29_PeekCycleEnds ==
    /\ [](InPeek => \E t \in BagToSet(timers) : t.kind \in {"anim", "mouse"})
    /\ [](pointer # NoMouse => Away(pointer))
    /\ (InPeek /\ pointer # NoMouse)
          ~> (Docked /\ win.shown /\ (embedded \/ win.bottom))

\* C30: _saved_pos holds a position exactly while a peek is in progress
\* (peek_visible or _peek_animating).
C30_SavedPosIffPeek == (saved_pos # NoPos) <=> InPeek

\* the widget was dragged while revealed: the drag went to the remembered
\* position and left the config alone
C30_Witness ==
    /\ peek_visible /\ ~peek_animating
    /\ saved_pos = <<30, 30>> /\ config.x = 70 /\ win.x = 30

\* C31: quit() in any phase of a peek saves the remembered position as the
\* config's x and y, and it saves the window's position only when no peek is
\* in progress.
C31_QuitSavesDockedPosition ==
    [][Quit =>
          /\ InPeek => /\ saved_pos # NoPos
                       /\ config'.x = saved_pos[1] /\ config'.y = saved_pos[2]
          /\ ~InPeek => (config'.x = win.x /\ config'.y = win.y)]_vars

\* quit() ran during the slide-out of a widget that had been dragged while
\* revealed: the drag's position is saved, not the one the slide had reached
C31_Witness ==
    /\ ~running /\ peek_animating /\ peek_visible
    /\ saved_pos = <<30, 30>> /\ config.x = 30 /\ config.y = 30
    /\ win.x # 30

\* C32: the failure counter of sensor_loop is between 0 and 3 in every state,
\* with or without a backend handle, and an iteration in which it reached 3
\* ends with the counter at 0.
C32_CounterBounded ==
    /\ [](consecutive_errors \in 0..ReinitAfter)
    /\ [][(p_pc' = "wait" /\ p_pc # "wait")
             => consecutive_errors' < ReinitAfter]_vars

C34_WriteOnlyVerified ==
    /\ [](\A f \in DllNames :
             lib_dir[f] # NoData
                => \E i \in DOMAIN PACKAGES :
                      /\ f \in DOMAIN PACKAGES[i].hashes
                      /\ sha256(lib_dir[f]) = PACKAGES[i].hashes[f])
    /\ [][/\ \A f \in DllNames :
               lib_dir'[f] # lib_dir[f]
                  => \E k \in DOMAIN verified' :
                        /\ verified'[k].ok
                        /\ verified'[k].name = f
                        /\ verified'[k].data = lib_dir'[f]
          /\ (\E k \in DOMAIN verified' : ~verified'[k].ok /\ verified' # verified)
                => (lib_dir' = lib_dir /\ exit_code' = 1)
          /\ (ExtractPackage /\ package'.kind = "zip"
                /\ \E k \in DOMAIN package'.entries :
                      /\ package'.entries[k].path = PACKAGES[setup_pc].dll
                      /\ sha256(package'.entries[k].data)
                            # PACKAGES[setup_pc].hashes[PACKAGES[setup_pc].dll.base])
                => (lib_dir' = lib_dir /\ exit_code' = 1)
          /\ exit_code = 1 => UNCHANGED instvars]_vars
    /\ [](\A d \in Contents, i \in DOMAIN PACKAGES :
             ~verify_hash(d, "Unknown.dll", PACKAGES[i].hashes))

\* the first package's DLL was verified and written, then the second package
\* held a DLL with another hash under a different path: the installer ended
\* with status 1 and wrote no second file
C34_Witness ==
    /\ exit_code = 1 /\ setup_pc = 3
    /\ lib_dir["LibreHardwareMonitorLib.dll"] = 1
    /\ lib_dir["HidSharp.dll"] = NoData
    /\ Len(verified) = 1 /\ ~verified[1].ok /\ verified[1].data = 3
    /\ package.entries[1].path.dir = "lib/net45"

====
